---- MODULE Spec2Model ----
(***************************************************************************)
(* A model of flax/experimental/nnx/nnx/graph_utils.py: the flatten and    *)
(* unflatten engines over a heap of live objects, and the pop, dynamic     *)
(* update and reuse-map operations derived from them.                      *)
(*                                                                         *)
(* The heap is a sequence of objects; an object's identity (Python id())   *)
(* is its position in the sequence.  Attribute slots hold values: a        *)
(* reference to a heap object, a static value, or a raw array leaf.        *)
(***************************************************************************)
EXTENDS Integers, Sequences, FiniteSets, TLC

VARIABLES heap,      \* the live objects
          root,      \* the object the operations are applied to
          pc,        \* which operation the program has completed
          out,       \* the values returned by the operations so far
          inp        \* the arguments chosen for the operation

vars == <<heap, root, pc, out, inp>>

(***************************************************************************)
(* Bounds of the model.                                                    *)
(***************************************************************************)
MaxAttrs == 3
MaxPayload == 1
MaxStatic == 0
MaxDepth == 3

\* the marker of an empty payload (variables.EMPTY)
EMPTY == -1

NoErr == "ok"

(***************************************************************************)
(* Values and objects.                                                     *)
(***************************************************************************)
Ref(i) == [t |-> "ref", v |-> i]
Static(n) == [t |-> "static", v |-> n]
Arr(n) == [t |-> "arr", v |-> n]
Dict(d) == [t |-> "dict", d |-> d]

Attr(k, x) == [key |-> k, val |-> x]

GraphNode(type, attrs) == [kind |-> "graph", type |-> type, attrs |-> attrs]
Pytree(attrs) == [kind |-> "pytree", type |-> "dict", attrs |-> attrs]
Variable(type, raw_value, metadata) ==
  [kind |-> "var", type |-> type, raw_value |-> raw_value, metadata |-> metadata]

Keys == {"a", "b", "c"}
KeyRank == ("a" :> 1 @@ "b" :> 2 @@ "c" :> 3)

\* ordered (key, value) collections: Python dicts and lists of pairs
SeqKeys(items) == [i \in 1..Len(items) |-> items[i].key]
KeySet(items) == {items[i].key : i \in 1..Len(items)}
HasKey(items, k) == \E i \in 1..Len(items) : items[i].key = k
Get(items, k) == items[CHOOSE i \in 1..Len(items) : items[i].key = k].val
Put(items, k, x) ==
  IF HasKey(items, k)
  THEN [i \in 1..Len(items) |-> IF items[i].key = k THEN Attr(k, x) ELSE items[i]]
  ELSE Append(items, Attr(k, x))
DelKey(items, k) == SelectSeq(items, LAMBDA e : e.key # k)

RECURSIVE SortedInsert(_, _)
SortedInsert(items, e) ==
  IF items = <<>> THEN <<e>>
  ELSE IF KeyRank[e.key] < KeyRank[Head(items).key] THEN <<e>> \o items
  ELSE <<Head(items)>> \o SortedInsert(Tail(items), e)

RECURSIVE Sorted(_)
Sorted(items) ==
  IF items = <<>> THEN <<>>
  ELSE SortedInsert(Sorted(Tail(items)), Head(items))

(***************************************************************************)
(* Classification of values.                                               *)
(***************************************************************************)
isVariable(h, x) == x.t = "ref" /\ h[x.v].kind = "var"
is_state_leaf(h, x) == isVariable(h, x) \/ x.t = "arr"
is_graph_node(h, x) == x.t = "ref" /\ h[x.v].kind = "graph"
is_pytree_node(h, x) == x.t = "ref" /\ h[x.v].kind = "pytree"
is_node(h, x) == IF isVariable(h, x) THEN FALSE
                 ELSE IF is_graph_node(h, x) THEN TRUE
                 ELSE is_pytree_node(h, x)

\* get_node_impl: which adapter serves the object
get_node_impl(h, n) == IF h[n].kind = "graph" THEN "GraphNodeImpl" ELSE "PytreeNodeImpl"

(***************************************************************************)
(* Node adapters.                                                          *)
(***************************************************************************)
\* GraphNode._graph_node_flatten: the attributes sorted by name, and the class
_graph_node_flatten(h, n) ==
  [nodes |-> Sorted(h[n].attrs), metadata |-> [cls |-> h[n].type]]

\* _flatten_pytree: the immediate children in container order, and the treedef
_flatten_pytree(h, n) ==
  [nodes |-> h[n].attrs, metadata |-> [treedef |-> SeqKeys(h[n].attrs)]]

node_flatten(h, n) ==
  IF h[n].kind = "graph" THEN _graph_node_flatten(h, n) ELSE _flatten_pytree(h, n)

node_dict(h, n) == node_flatten(h, n).nodes

node_impl_type(h, n) == IF h[n].kind = "graph" THEN h[n].type ELSE "PytreeType"

(***************************************************************************)
(* Leaf cells (Variable).                                                  *)
(***************************************************************************)
Alloc(h, obj) == Append(h, obj)
NewId(h) == Len(h) + 1

\* Variable.copy: a new cell with the same type, payload and metadata
VariableCopy(h, v) == Alloc(h, h[v])

\* Variable.copy_from: in-place absorb of another cell of the same type
copy_from_ok(h, v, w) == h[v].type = h[w].type
copy_from(h, v, w) ==
  [h EXCEPT ![v].raw_value = h[w].raw_value, ![v].metadata = h[w].metadata]

\* Variable.copy_from_def: absorb the metadata of a VariableDef with a payload
copy_from_def(h, v, variable_def, value) ==
  [h EXCEPT ![v].raw_value = value, ![v].metadata = variable_def.metadata]

\* VariableDef.from_variable
from_variable(h, v, index) ==
  [type |-> h[v].type, index |-> index, metadata |-> h[v].metadata]

\* VariableDef.to_variable
to_variable(variable_def, value) ==
  Variable(variable_def.type, value, variable_def.metadata)

(***************************************************************************)
(* Descriptors.  A back-reference (a Python int in the place of a NodeDef  *)
(* or VariableDef) is the record BackRef(i).                               *)
(***************************************************************************)
BackRef(i) == [backref |-> i]
IsInt(d) == "backref" \in DOMAIN d

EmptyMap == <<>>
\* d[k] = x on a Python dict
MapPut(m, k, x) == (k :> x) @@ m

\* NodeDef.create with the attribute tuple in the opposite order
NodeDefCreate_reversed(type, index, attributes, subgraphs, static_fields, variables, metadata) ==
  [type |-> type, index |-> index,
   attributes |-> [i \in 1..Len(attributes) |-> attributes[Len(attributes) + 1 - i]],
   subgraphs |-> subgraphs, static_fields |-> static_fields,
   variables |-> variables, metadata |-> metadata]

\* NodeDef.create, lines 336-355
NodeDefCreate(type, index, attributes, subgraphs, static_fields, variables, metadata) ==
  [type |-> type, index |-> index, attributes |-> attributes,
   subgraphs |-> subgraphs, static_fields |-> static_fields,
   variables |-> variables, metadata |-> metadata]

(***************************************************************************)
(* Flatten engine.                                                         *)
(* The context c carries the heap (copies are allocated in it), the        *)
(* identity map refmap (object -> index), flat_state and the error raised. *)
(***************************************************************************)
\* RefMap.__len__ counting from one
RefMapLen_fromone(refmap) == Cardinality(DOMAIN refmap) + 1

RefMapLen(refmap) == Cardinality(DOMAIN refmap)

FlattenCtx(h) == [heap |-> h, refmap |-> EmptyMap, flat_state |-> <<>>, err |-> NoErr]

EmptyAcc == [subgraphs |-> EmptyMap, static_fields |-> EmptyMap, variables |-> EmptyMap]

\* FlattenVariable without the identity check of line 486: every visit of a
\* leaf cell is taken for the first one
FlattenVariable_noalias(c, path, key, v, acc) ==
  LET variable_index == RefMapLen(c.refmap) + (IF v \in DOMAIN c.refmap THEN 1 ELSE 0)
      copy == NewId(c.heap)
  IN [c |-> [c EXCEPT !.heap = VariableCopy(c.heap, v),
                      !.flat_state = Append(@, [path |-> Append(path, key),
                                                leaf |-> Ref(copy)]),
                      !.refmap = MapPut(@, v, variable_index)],
      acc |-> [acc EXCEPT !.variables =
                 MapPut(@, key, from_variable(c.heap, v, variable_index))]]

\* lines 485-493: a leaf cell met by the flatten loop
FlattenVariable(c, path, key, v, acc) ==
  IF v \in DOMAIN c.refmap
  THEN [c |-> c,
        acc |-> [acc EXCEPT !.variables = MapPut(@, key, BackRef(c.refmap[v]))]]
  ELSE LET variable_index == RefMapLen(c.refmap)
           copy == NewId(c.heap)
       IN [c |-> [c EXCEPT !.heap = VariableCopy(c.heap, v),
                           !.flat_state = Append(@, [path |-> Append(path, key),
                                                     leaf |-> Ref(copy)]),
                           !.refmap = MapPut(@, v, variable_index)],
           acc |-> [acc EXCEPT !.variables =
                      MapPut(@, key, from_variable(c.heap, v, variable_index))]]

RECURSIVE _graph_flatten(_, _, _)
RECURSIVE FlattenValues(_, _, _, _, _)

\* lines 481-497: the loop over the (key, value) pairs of one node
FlattenValues(c, path, values, i, acc) ==
  IF i > Len(values) \/ c.err # NoErr THEN [c |-> c, acc |-> acc]
  ELSE
    LET key == values[i].key
        value == values[i].val
    IN IF is_node(c.heap, value)
       THEN LET r == _graph_flatten(c, Append(path, key), value.v)
            IN FlattenValues(r.c, path, values, i + 1,
                 [acc EXCEPT !.subgraphs = MapPut(@, key, r.out)])
       ELSE IF isVariable(c.heap, value)
       THEN LET r == FlattenVariable(c, path, key, value.v, acc)
            IN FlattenValues(r.c, path, values, i + 1, r.acc)
       ELSE IF is_state_leaf(c.heap, value)
       THEN FlattenValues(
              [c EXCEPT !.flat_state = Append(@, [path |-> Append(path, key),
                                                  leaf |-> value])],
              path, values, i + 1, acc)
       ELSE FlattenValues(c, path, values, i + 1,
              [acc EXCEPT !.static_fields = MapPut(@, key, value.v)])

\* lines 455-508 without lines 470-474: every node is cached
_graph_flatten_trackall(c, path, node) ==
  IF node \in DOMAIN c.refmap
  THEN [c |-> c, out |-> BackRef(c.refmap[node])]
  ELSE
    LET index == RefMapLen(c.refmap)
        c1 == [c EXCEPT !.refmap = MapPut(@, node, index)]
        fl == node_flatten(c.heap, node)
        r == FlattenValues(c1, path, fl.nodes, 1, EmptyAcc)
    IN [c |-> r.c,
        out |-> NodeDefCreate(node_impl_type(c.heap, node), index,
                              SeqKeys(fl.nodes), r.acc.subgraphs,
                              r.acc.static_fields, r.acc.variables, fl.metadata)]

\* lines 455-508
_graph_flatten(c, path, node) ==
  IF node \in DOMAIN c.refmap
  THEN [c |-> c, out |-> BackRef(c.refmap[node])]
  ELSE
    LET isGraph == get_node_impl(c.heap, node) = "GraphNodeImpl"
        index == IF isGraph THEN RefMapLen(c.refmap) ELSE -1
        c1 == IF isGraph THEN [c EXCEPT !.refmap = MapPut(@, node, index)] ELSE c
        fl == node_flatten(c.heap, node)
        r == FlattenValues(c1, path, fl.nodes, 1, EmptyAcc)
    IN [c |-> r.c,
        out |-> NodeDefCreate(node_impl_type(c.heap, node), index,
                              SeqKeys(fl.nodes), r.acc.subgraphs,
                              r.acc.static_fields, r.acc.variables, fl.metadata)]

(***************************************************************************)
(* State.from_flat_path: the flat leaf table reassembled into the nested   *)
(* mapping (State.raw_mapping).                                            *)
(***************************************************************************)
RECURSIVE NestInsert(_, _, _)
NestInsert(nested, path, leaf) ==
  IF Len(path) = 1 THEN Put(nested, path[1], leaf)
  ELSE LET sub == IF HasKey(nested, path[1]) /\ Get(nested, path[1]).t = "dict"
                  THEN Get(nested, path[1]).d ELSE <<>>
       IN Put(nested, path[1], Dict(NestInsert(sub, Tail(path), leaf)))

RECURSIVE from_flat_path_rec(_, _, _)
from_flat_path_rec(flat_state, i, nested) ==
  IF i > Len(flat_state) THEN nested
  ELSE from_flat_path_rec(flat_state, i + 1,
         NestInsert(nested, flat_state[i].path, flat_state[i].leaf))

from_flat_path(flat_state) == from_flat_path_rec(flat_state, 1, <<>>)

\* compose_mapping, lines 1147-1150 (map_bc is a RefMap)
compose_mapping(map_ab, map_bc) ==
  LET dom == {a \in DOMAIN map_ab : map_ab[a] \in DOMAIN map_bc}
  IN [a \in dom |-> map_bc[map_ab[a]]]

\* compose_mapping_reversed, lines 1153-1156 (map_ab is a RefMap);
\* on a clash of keys the dict comprehension keeps one of the items
compose_mapping_reversed(map_ab, map_bc) ==
  LET src == {a \in DOMAIN map_ab : map_ab[a] \in DOMAIN map_bc}
      dom == {map_bc[map_ab[a]] : a \in src}
  IN [c \in dom |-> CHOOSE a \in src : map_bc[map_ab[a]] = c]

NoneMapping == [none |-> TRUE]

\* graph_flatten, lines 437-452; idxmap is NoneMapping or a map index -> object
graph_flatten(h, x, idxmap) ==
  LET r == _graph_flatten(FlattenCtx(h), <<>>, x)
      index_to_index == IF idxmap # NoneMapping
                        THEN [map |-> compose_mapping(idxmap.map, r.c.refmap)]
                        ELSE NoneMapping
  IN [heap |-> r.c.heap,
      graphdef |-> [nodedef |-> r.out, index_mapping |-> index_to_index],
      state |-> from_flat_path(r.c.flat_state),
      flat_state |-> r.c.flat_state,
      refmap |-> r.c.refmap,
      err |-> r.c.err]

(***************************************************************************)
(* Unflatten engine.                                                       *)
(* The context c carries the heap, index_to_ref (index -> object) and the  *)
(* error raised.  idxmap is NoneMapping or [map |-> index -> object].      *)
(***************************************************************************)
UnflattenCtx(h) == [heap |-> h, index_to_ref |-> EmptyMap, err |-> NoErr]

Fail(c, e) == [c EXCEPT !.err = e]

InIdxmap(idxmap, i) == idxmap # NoneMapping /\ i \in DOMAIN idxmap.map

\* type(value) of a value of the nested leaf table
TypeOf(h, x) == IF x.t = "ref" THEN h[x.v].type
                ELSE IF x.t = "arr" THEN "Array"
                ELSE IF x.t = "dict" THEN "dict"
                ELSE "int"

\* GraphNode._graph_node_set_key, lines 1324-1334
set_key_ok(h, n, key, x) ==
  (HasKey(h[n].attrs, key) /\ isVariable(h, Get(h[n].attrs, key)) /\ isVariable(h, x))
    => copy_from_ok(h, Get(h[n].attrs, key).v, x.v)
set_key(h, n, key, x) ==
  IF HasKey(h[n].attrs, key) /\ isVariable(h, Get(h[n].attrs, key)) /\ isVariable(h, x)
  THEN copy_from(h, Get(h[n].attrs, key).v, x.v)
  ELSE [h EXCEPT ![n].attrs = Put(@, key, x)]

\* GraphNode._graph_node_pop_key, lines 1336-1339
pop_key(h, n, key) == [h EXCEPT ![n].attrs = DelKey(@, key)]

\* GraphNode._graph_node_create_empty, lines 1341-1345
create_empty(metadata) == GraphNode(metadata.cls, <<>>)

\* GraphNode._graph_node_clear, lines 1347-1351
clear(h, n) == [h EXCEPT ![n].attrs = <<>>]

\* GraphNodeImpl.init, lines 153-155
RECURSIVE init(_, _, _, _)
init(c, n, items, i) ==
  IF i > Len(items) \/ c.err # NoErr THEN c
  ELSE IF ~set_key_ok(c.heap, n, items[i].key, items[i].val)
  THEN Fail(c, "IncompatibleVariable")
  ELSE init([c EXCEPT !.heap = set_key(c.heap, n, items[i].key, items[i].val)],
            n, items, i + 1)

\* _unflatten_pytree, lines 1387-1391: the treedef rebuilt from the values in order
_unflatten_pytree(nodes, metadata) ==
  Pytree([i \in 1..Len(nodes) |-> Attr(metadata.treedef[i], nodes[i].val)])

RECURSIVE _graph_unflatten(_, _, _, _)
RECURSIVE _get_children(_, _, _, _, _, _)

\* index_to_ref[i] of a back-reference
LookupRef(c, i, key, children) ==
  IF i \in DOMAIN c.index_to_ref
  THEN [c |-> c, children |-> Put(children, key, Ref(c.index_to_ref[i]))]
  ELSE [c |-> Fail(c, "KeyError"), children |-> children]

\* lines 593-607: an empty leaf cell for a VariableDef with no entry in state
EmptyVariable(c, variable_def, key, idxmap, children) ==
  IF InIdxmap(idxmap, variable_def.index)
  THEN LET node == idxmap.map[variable_def.index]
       IN IF c.heap[node].type # variable_def.type
          THEN [c |-> Fail(c, "TypeMismatch"), children |-> children]
          ELSE [c |-> [c EXCEPT !.heap = copy_from_def(@, node, variable_def, EMPTY),
                                !.index_to_ref = MapPut(@, variable_def.index, node)],
                children |-> Put(children, key, Ref(node))]
  ELSE LET node == NewId(c.heap)
       IN [c |-> [c EXCEPT !.heap = Alloc(@, to_variable(variable_def, EMPTY)),
                           !.index_to_ref = MapPut(@, variable_def.index, node)],
           children |-> Put(children, key, Ref(node))]

\* StateVariable without the copy of line 648: the leaf cell of the table
\* itself is stored in the node
StateVariable_nocopy(c, variable_def, key, value, idxmap, children) ==
  IF TypeOf(c.heap, value) # variable_def.type
  THEN [c |-> Fail(c, "TypeMismatch"), children |-> children]
  ELSE [c |-> [c EXCEPT !.index_to_ref = MapPut(@, variable_def.index, value.v)],
        children |-> Put(children, key, value)]

\* lines 632-650: a leaf cell for a VariableDef with an entry in state
StateVariable(c, variable_def, key, value, idxmap, children) ==
  IF TypeOf(c.heap, value) # variable_def.type
  THEN [c |-> Fail(c, "TypeMismatch"), children |-> children]
  ELSE IF InIdxmap(idxmap, variable_def.index)
  THEN LET variable == idxmap.map[variable_def.index]
       IN IF c.heap[variable].type # variable_def.type
          THEN [c |-> Fail(c, "TypeMismatch"), children |-> children]
          ELSE [c |-> [c EXCEPT !.heap = copy_from(@, variable, value.v),
                                !.index_to_ref = MapPut(@, variable_def.index, variable)],
                children |-> Put(children, key, Ref(variable))]
  ELSE LET variable == NewId(c.heap)
       IN [c |-> [c EXCEPT !.heap = VariableCopy(@, value.v),
                           !.index_to_ref = MapPut(@, variable_def.index, variable)],
           children |-> Put(children, key, Ref(variable))]

\* ChildWithoutState with the slip of line 621 repeated at lines 580 and 591:
\* the object of a back-reference is looked up and not stored
ChildWithoutState_dropref(c, nodedef, key, idxmap, children) ==
  IF key \in DOMAIN nodedef.subgraphs
  THEN LET subgraphdef == nodedef.subgraphs[key]
       IN IF IsInt(subgraphdef)
          THEN [c |-> LookupRef(c, subgraphdef.backref, key, children).c,
                children |-> children]
          ELSE LET r == _graph_unflatten(c, subgraphdef, <<>>, idxmap)
               IN [c |-> r.c,
                   children |-> IF r.c.err = NoErr THEN Put(children, key, r.out)
                                ELSE children]
  ELSE IF key \in DOMAIN nodedef.variables
  THEN LET variable_def == nodedef.variables[key]
       IN IF IsInt(variable_def)
          THEN [c |-> LookupRef(c, variable_def.backref, key, children).c,
                children |-> children]
          ELSE EmptyVariable(c, variable_def, key, idxmap, children)
  ELSE [c |-> Fail(c, "UnknownStaticField"), children |-> children]

\* lines 572-609: the attribute has no entry in state
ChildWithoutState(c, nodedef, key, idxmap, children) ==
  IF key \in DOMAIN nodedef.subgraphs
  THEN LET subgraphdef == nodedef.subgraphs[key]
       IN IF IsInt(subgraphdef)
          THEN LookupRef(c, subgraphdef.backref, key, children)
          ELSE LET r == _graph_unflatten(c, subgraphdef, <<>>, idxmap)
               IN [c |-> r.c,
                   children |-> IF r.c.err = NoErr THEN Put(children, key, r.out)
                                ELSE children]
  ELSE IF key \in DOMAIN nodedef.variables
  THEN LET variable_def == nodedef.variables[key]
       IN IF IsInt(variable_def)
          THEN LookupRef(c, variable_def.backref, key, children)
          ELSE EmptyVariable(c, variable_def, key, idxmap, children)
  ELSE [c |-> Fail(c, "UnknownStaticField"), children |-> children]

\* lines 610-652: the attribute has an entry in state
ChildWithState(c, nodedef, key, value, idxmap, children) ==
  IF key \in DOMAIN nodedef.subgraphs
  THEN IF is_state_leaf(c.heap, value)
       THEN [c |-> Fail(c, "ExpectedSubgraph"), children |-> children]
       ELSE LET subgraphdef == nodedef.subgraphs[key]
            IN IF IsInt(subgraphdef)
               THEN \* line 621: the object is looked up and not stored
                    IF subgraphdef.backref \in DOMAIN c.index_to_ref
                    THEN [c |-> c, children |-> children]
                    ELSE [c |-> Fail(c, "KeyError"), children |-> children]
               ELSE LET r == _graph_unflatten(c, subgraphdef, value.d, idxmap)
                    IN [c |-> r.c,
                        children |-> IF r.c.err = NoErr THEN Put(children, key, r.out)
                                     ELSE children]
  ELSE IF key \in DOMAIN nodedef.variables
  THEN LET variable_def == nodedef.variables[key]
       IN IF IsInt(variable_def)
          THEN LookupRef(c, variable_def.backref, key, children)
          ELSE StateVariable(c, variable_def, key, value, idxmap, children)
  ELSE IF is_state_leaf(c.heap, value)
  THEN [c |-> c, children |-> Put(children, key, value)]
  ELSE [c |-> c, children |-> children]

\* lines 566-656
_get_children(c, nodedef, state, idxmap, i, children) ==
  IF c.err # NoErr THEN [c |-> c, children |-> children]
  ELSE IF i > Len(nodedef.attributes)
  THEN IF KeySet(state) \ {nodedef.attributes[j] : j \in 1..Len(nodedef.attributes)} # {}
       THEN [c |-> Fail(c, "UnknownKey"), children |-> children]
       ELSE [c |-> c, children |-> children]
  ELSE
    LET key == nodedef.attributes[i]
        r == IF key \in DOMAIN nodedef.static_fields
             THEN [c |-> c,
                   children |-> Put(children, key, Static(nodedef.static_fields[key]))]
             ELSE IF ~HasKey(state, key)
             THEN ChildWithoutState(c, nodedef, key, idxmap, children)
             ELSE ChildWithState(c, nodedef, key, Get(state, key), idxmap, children)
    IN _get_children(r.c, nodedef, state, idxmap, i + 1, r.children)

\* UnflattenGraphNode without lines 661-668: a new node is made for every index
UnflattenGraphNode_fresh(c, nodedef, state, idxmap) ==
  LET node == NewId(c.heap)
      c1 == [c EXCEPT !.heap = Alloc(@, create_empty(nodedef.metadata)),
                      !.index_to_ref = MapPut(@, nodedef.index, node)]
      r == _get_children(c1, nodedef, state, idxmap, 1, <<>>)
  IN [c |-> init(r.c, node, r.children, 1), out |-> Ref(node)]

\* UnflattenGraphNode with line 671 moved after line 672: the node is
\* registered once its children are built
UnflattenGraphNode_late(c, nodedef, state, idxmap) ==
  LET reuse == InIdxmap(idxmap, nodedef.index)
      node == IF reuse THEN idxmap.map[nodedef.index] ELSE NewId(c.heap)
  IN IF reuse /\ c.heap[node].type # nodedef.type
     THEN [c |-> Fail(c, "TypeMismatch"), out |-> Ref(node)]
     ELSE LET c1 == [c EXCEPT !.heap = IF reuse THEN clear(@, node)
                                       ELSE Alloc(@, create_empty(nodedef.metadata))]
              r == _get_children(c1, nodedef, state, idxmap, 1, <<>>)
              c2 == [r.c EXCEPT !.index_to_ref = MapPut(@, nodedef.index, node)]
          IN [c |-> init(c2, node, r.children, 1), out |-> Ref(node)]

\* lines 658-673: a mutable graph node is registered before its children are built
UnflattenGraphNode(c, nodedef, state, idxmap) ==
  LET reuse == InIdxmap(idxmap, nodedef.index)
      node == IF reuse THEN idxmap.map[nodedef.index] ELSE NewId(c.heap)
  IN IF reuse /\ c.heap[node].type # nodedef.type
     THEN [c |-> Fail(c, "TypeMismatch"), out |-> Ref(node)]
     ELSE LET c1 == [c EXCEPT !.heap = IF reuse THEN clear(@, node)
                                       ELSE Alloc(@, create_empty(nodedef.metadata)),
                              !.index_to_ref = MapPut(@, nodedef.index, node)]
              r == _get_children(c1, nodedef, state, idxmap, 1, <<>>)
          IN [c |-> init(r.c, node, r.children, 1), out |-> Ref(node)]

\* lines 674-678: an immutable tree node is built after its children
UnflattenPytree(c, nodedef, state, idxmap) ==
  LET r == _get_children(c, nodedef, state, idxmap, 1, <<>>)
      node == NewId(r.c.heap)
  IN IF r.c.err # NoErr THEN [c |-> r.c, out |-> Ref(node)]
     ELSE IF Len(r.children) # Len(nodedef.metadata.treedef)
     THEN [c |-> Fail(r.c, "TreedefArity"), out |-> Ref(node)]
     ELSE [c |-> [r.c EXCEPT !.heap = Alloc(@, _unflatten_pytree(r.children,
                                                               nodedef.metadata))],
           out |-> Ref(node)]

\* lines 536-680
_graph_unflatten(c, nodedef, state, idxmap) ==
  IF IsInt(nodedef)
  THEN IF nodedef.backref \in DOMAIN c.index_to_ref
       THEN [c |-> c, out |-> Ref(c.index_to_ref[nodedef.backref])]
       ELSE [c |-> Fail(c, "KeyError"), out |-> Ref(0)]
  ELSE IF nodedef.index \in DOMAIN c.index_to_ref
  THEN [c |-> Fail(c, "IndexAlreadyUsed"), out |-> Ref(0)]
  ELSE IF nodedef.type # "PytreeType"
  THEN UnflattenGraphNode(c, nodedef, state, idxmap)
  ELSE UnflattenPytree(c, nodedef, state, idxmap)

\* graph_unflatten, lines 511-533
graph_unflatten(h, graphdef, state, idxmap) ==
  LET r == _graph_unflatten(UnflattenCtx(h), graphdef.nodedef, state, idxmap)
  IN [heap |-> r.c.heap, node |-> r.out, index_to_ref |-> r.c.index_to_ref,
      err |-> r.c.err]

(***************************************************************************)
(* Reading a graph: the value reached from an object along a path.         *)
(***************************************************************************)
Missing == [t |-> "missing"]

RECURSIVE Resolve(_, _, _)
Resolve(h, x, path) ==
  IF path = <<>> THEN x
  ELSE IF x.t = "ref" /\ h[x.v].kind # "var" /\ HasKey(h[x.v].attrs, Head(path))
  THEN Resolve(h, Get(h[x.v].attrs, Head(path)), Tail(path))
  ELSE Missing

\* the descriptor entry reached along a path: subgraphs first, then variables
RECURSIVE DescAt(_, _)
DescAt(d, path) ==
  IF path = <<>> THEN d
  ELSE IF IsInt(d) \/ "subgraphs" \notin DOMAIN d THEN Missing
  ELSE IF Head(path) \in DOMAIN d.subgraphs THEN DescAt(d.subgraphs[Head(path)], Tail(path))
  ELSE IF Head(path) \in DOMAIN d.variables /\ Len(path) = 1 THEN d.variables[Head(path)]
  ELSE Missing

IsNodeDef(d) == "subgraphs" \in DOMAIN d
IsVariableDef(d) == "type" \in DOMAIN d /\ "subgraphs" \notin DOMAIN d

\* the objects reachable from a set of objects
RefsOf(h, n) ==
  IF h[n].kind = "var" THEN {}
  ELSE {h[n].attrs[i].val.v : i \in {j \in 1..Len(h[n].attrs) : h[n].attrs[j].val.t = "ref"}}

RECURSIVE Reach(_, _)
Reach(h, S) ==
  LET T == S \cup UNION {RefsOf(h, n) : n \in S}
  IN IF T = S THEN S ELSE Reach(h, T)

(***************************************************************************)
(* The initial graphs: two mutable graph nodes (object 1 is the root), one *)
(* immutable tree node and two leaf cells, wired by at most MaxAttrs       *)
(* attribute slots.                                                        *)
(***************************************************************************)
GraphIds == {1, 2}
PytreeIds == {3}
VarIds == {4, 5}
NodeIds == GraphIds \cup PytreeIds
AttrKeys == {"a", "b"}

ClassOf == (1 :> "Foo" @@ 2 :> "Bar" @@ 4 :> "Param" @@ 5 :> "BatchStat")
MetadataOf == (4 :> <<Attr("m1", 0), Attr("m2", 0)>> @@ 5 :> <<Attr("m1", 1)>>)
PayloadOf == (4 :> 0 @@ 5 :> 1)

None == [t |-> "none"]

SlotValues(n, withArr) ==
  {None} \cup {Static(s) : s \in 0..MaxStatic}
         \cup (IF withArr THEN {Arr(0)} ELSE {})
         \cup {Ref(i) : i \in (NodeIds \cup VarIds) \ (IF n \in PytreeIds THEN {n} ELSE {})}

NodeSlots(n, withArr) == [AttrKeys -> SlotValues(n, withArr)]

\* vars(node) when "a" was assigned before "b" (rev = FALSE) or after it
AttrsOf(slots, rev) ==
  LET a == IF slots["a"] = None THEN <<>> ELSE <<Attr("a", slots["a"])>>
      b == IF slots["b"] = None THEN <<>> ELSE <<Attr("b", slots["b"])>>
  IN IF rev THEN b \o a ELSE a \o b

\* the root was assigned "b" before "a", the other nodes "a" before "b"
MakeHeap(s1, s2, s3) ==
  <<GraphNode(ClassOf[1], AttrsOf(s1, TRUE)),
    GraphNode(ClassOf[2], AttrsOf(s2, FALSE)),
    Pytree(AttrsOf(s3, FALSE)),
    Variable(ClassOf[4], PayloadOf[4], MetadataOf[4]),
    Variable(ClassOf[5], PayloadOf[5], MetadataOf[5])>>

NumAttrs(h) ==
  Len(h[1].attrs) + Len(h[2].attrs) + Len(h[3].attrs)

\* every node that is not reachable from the root is left blank
WellFormed(h) ==
  /\ NumAttrs(h) \in 1..MaxAttrs
  /\ LET R == Reach(h, {1})
     IN /\ \A n \in NodeIds \ R : h[n].attrs = <<>>
        /\ (5 \in R => 4 \in R)

InitHeap(h, withArr) ==
  \E s1 \in NodeSlots(1, withArr) :
    \E s2 \in NodeSlots(2, withArr) :
      \E s3 \in NodeSlots(3, withArr) :
        /\ WellFormed(MakeHeap(s1, s2, s3))
        /\ h = MakeHeap(s1, s2, s3)

(***************************************************************************)
(* The round trip: flatten the root, unflatten the result, flatten again.  *)
(***************************************************************************)
Init ==
  /\ InitHeap(heap, FALSE)
  /\ root = 1
  /\ pc = "init"
  /\ out = EmptyMap
  /\ inp = EmptyMap

Flatten ==
  /\ pc = "init"
  /\ LET r == graph_flatten(heap, root, NoneMapping)
     IN /\ heap' = r.heap
        /\ out' = MapPut(out, "flat", r)
  /\ pc' = "flat"
  /\ UNCHANGED <<root, inp>>

Unflatten ==
  /\ pc = "flat"
  /\ LET r == graph_unflatten(heap, out["flat"].graphdef, out["flat"].state, NoneMapping)
     IN /\ heap' = r.heap
        /\ out' = MapPut(out, "unflat", r)
  /\ pc' = "unflat"
  /\ UNCHANGED <<root, inp>>

Reflatten ==
  /\ pc = "unflat"
  /\ out["unflat"].err = NoErr
  /\ LET r == graph_flatten(heap, out["unflat"].node.v, NoneMapping)
     IN /\ heap' = r.heap
        /\ out' = MapPut(out, "reflat", r)
  /\ pc' = "reflat"
  /\ UNCHANGED <<root, inp>>

Next == Flatten \/ Unflatten \/ Reflatten

Spec == Init /\ [][Next]_vars

(***************************************************************************)
(* Equality and hash of descriptors.  hash() is modelled by the value      *)
(* that the code hands to it: two hashes are equal when these are.         *)
(***************************************************************************)
AsDict(items) == {items[i] : i \in 1..Len(items)}

\* VariableDef.__eq__, lines 317-324
VariableDefEq(d, e) ==
  /\ d.type = e.type
  /\ d.index = e.index
  /\ AsDict(d.metadata) = AsDict(e.metadata)

\* VariableDef.__hash__, lines 314-315: the metadata items in insertion order
VariableDefHash(d) == <<d.type, d.index, d.metadata>>

\* NodeDef.__eq__ (dataclass) over _HashableMapping.__eq__, lines 242-245
RECURSIVE NodeDefEq(_, _)
NodeDefEq(d, e) ==
  IF IsInt(d) \/ IsInt(e) THEN d = e
  ELSE /\ d.type = e.type
       /\ d.index = e.index
       /\ d.attributes = e.attributes
       /\ DOMAIN d.subgraphs = DOMAIN e.subgraphs
       /\ \A k \in DOMAIN d.subgraphs : NodeDefEq(d.subgraphs[k], e.subgraphs[k])
       /\ d.static_fields = e.static_fields
       /\ DOMAIN d.variables = DOMAIN e.variables
       /\ \A k \in DOMAIN d.variables :
            IF IsInt(d.variables[k]) \/ IsInt(e.variables[k])
            THEN d.variables[k] = e.variables[k]
            ELSE VariableDefEq(d.variables[k], e.variables[k])
       /\ d.metadata = e.metadata

\* NodeDef.__hash__ (dataclass) over _HashableMapping.__hash__, lines 239-240
RECURSIVE NodeDefHash(_)
NodeDefHash(d) ==
  IF IsInt(d) THEN d
  ELSE [type |-> d.type, index |-> d.index, attributes |-> d.attributes,
        subgraphs |-> [k \in DOMAIN d.subgraphs |-> NodeDefHash(d.subgraphs[k])],
        static_fields |-> d.static_fields,
        variables |-> [k \in DOMAIN d.variables |->
                         IF IsInt(d.variables[k]) THEN d.variables[k]
                         ELSE [h |-> VariableDefHash(d.variables[k])]],
        metadata |-> d.metadata]

\* GraphDef.__eq__ and GraphDef.__hash__, lines 385-391
GraphDefEq(g, k) == NodeDefEq(g.nodedef, k.nodedef)
GraphDefHash(g) == NodeDefHash(g.nodedef)

(***************************************************************************)
(* Structural equality of two graphs of the heap: same types, attribute    *)
(* names, static values and leaf payloads, and the same aliasing of        *)
(* mutable graph nodes and leaf cells (m pairs the objects met so far).    *)
(***************************************************************************)
RECURSIVE StructEqVal(_, _, _, _)
RECURSIVE StructEqItems(_, _, _, _, _)

StructEqVal(h, x, y, m) ==
  IF x.t # y.t THEN [ok |-> FALSE, m |-> m]
  ELSE IF x.t # "ref" THEN [ok |-> x = y, m |-> m]
  ELSE IF h[x.v].kind # h[y.v].kind \/ h[x.v].type # h[y.v].type
  THEN [ok |-> FALSE, m |-> m]
  ELSE IF h[x.v].kind = "pytree"
  THEN StructEqItems(h, h[x.v].attrs, h[y.v].attrs, 1, m)
  ELSE IF x.v \in DOMAIN m THEN [ok |-> m[x.v] = y.v, m |-> m]
  ELSE IF \E k \in DOMAIN m : m[k] = y.v THEN [ok |-> FALSE, m |-> m]
  ELSE IF h[x.v].kind = "var"
  THEN [ok |-> /\ h[x.v].raw_value = h[y.v].raw_value
               /\ AsDict(h[x.v].metadata) = AsDict(h[y.v].metadata),
        m |-> MapPut(m, x.v, y.v)]
  ELSE StructEqItems(h, Sorted(h[x.v].attrs), Sorted(h[y.v].attrs), 1,
                     MapPut(m, x.v, y.v))

StructEqItems(h, xs, ys, i, m) ==
  IF Len(xs) # Len(ys) THEN [ok |-> FALSE, m |-> m]
  ELSE IF i > Len(xs) THEN [ok |-> TRUE, m |-> m]
  ELSE IF xs[i].key # ys[i].key THEN [ok |-> FALSE, m |-> m]
  ELSE LET r == StructEqVal(h, xs[i].val, ys[i].val, m)
       IN IF r.ok THEN StructEqItems(h, xs, ys, i + 1, r.m) ELSE r

StructEq(h, x, y) == StructEqVal(h, x, y, EmptyMap).ok

\* a leaf table read by value: path, type, payload and metadata of each leaf
LeafView(h, x) ==
  IF x.t = "ref"
  THEN [type |-> h[x.v].type, raw_value |-> h[x.v].raw_value,
        metadata |-> AsDict(h[x.v].metadata)]
  ELSE [arr |-> x.v]
TableView(h, flat_state) ==
  {[path |-> flat_state[i].path, leaf |-> LeafView(h, flat_state[i].leaf)] :
     i \in 1..Len(flat_state)}

Paths == UNION {[1..n -> AttrKeys] : n \in 1..MaxDepth}
Prefixes(p) == {SubSeq(p, 1, n) : n \in 0..Len(p)}

Unflattened == pc \in {"unflat", "reflat"} /\ out["unflat"].err = NoErr

(***************************************************************************)
(* C1  Round trip: unflattening what flatten returned gives a graph        *)
(* structurally equal to the original, and flattening that graph again     *)
(* gives an equal descriptor and an equal leaf table.                      *)
(***************************************************************************)
C1_RoundTrip ==
  /\ pc = "unflat" =>
       /\ out["unflat"].err = NoErr
       /\ StructEq(heap, Ref(root), out["unflat"].node)
  /\ pc = "reflat" =>
       /\ GraphDefEq(out["flat"].graphdef, out["reflat"].graphdef)
       /\ TableView(heap, out["flat"].flat_state)
            = TableView(heap, out["reflat"].flat_state)

\* a graph with an immutable tree node, a leaf cell and a back-reference went round
C1_Witness ==
  /\ pc = "reflat"
  /\ \E p \in Paths : is_pytree_node(heap, Resolve(heap, Ref(root), p))
  /\ Len(out["flat"].flat_state) > 0
  /\ \E p \in Paths : IsInt(DescAt(out["flat"].graphdef.nodedef, p))

(***************************************************************************)
(* C2  Shared references: two slots holding one leaf cell or one mutable   *)
(* graph node hold one reconstructed object after the round trip.          *)
(***************************************************************************)
SameObject(h, x, y) == x.t = "ref" /\ x = y

\* the claim as stated: for every kind of object, immutable tree nodes included
C2_SharedAnyObject ==
  Unflattened =>
    \A p, q \in Paths :
      SameObject(heap, Resolve(heap, Ref(root), p), Resolve(heap, Ref(root), q))
        => SameObject(heap, Resolve(heap, out["unflat"].node, p),
                            Resolve(heap, out["unflat"].node, q))

C2_SharedPreserved ==
  Unflattened =>
    \A p, q \in Paths :
      /\ SameObject(heap, Resolve(heap, Ref(root), p), Resolve(heap, Ref(root), q))
      /\ ~is_pytree_node(heap, Resolve(heap, Ref(root), p))
      => SameObject(heap, Resolve(heap, out["unflat"].node, p),
                          Resolve(heap, out["unflat"].node, q))

\* a leaf cell and a graph node were each held by two different slots
C2_Witness ==
  /\ Unflattened
  /\ \E p, q \in Paths :
       /\ p # q /\ Len(p) = Len(q)
       /\ isVariable(heap, Resolve(heap, Ref(root), p))
       /\ Resolve(heap, Ref(root), p) = Resolve(heap, Ref(root), q)
       /\ Resolve(heap, out["unflat"].node, p) = Resolve(heap, out["unflat"].node, q)
       /\ Resolve(heap, out["unflat"].node, p) # Resolve(heap, Ref(root), p)

(***************************************************************************)
(* C3  Cycles: a field of a mutable graph node that references a node on   *)
(* the path from the root to it (the node itself, or an ancestor through   *)
(* a chain of nodes) is encoded as the index of that node, and after       *)
(* unflatten the field holds the object rebuilt for that node.             *)
(***************************************************************************)
ClosesCycle(p, q, k) ==
  /\ IsNodeDef(DescAt(out["flat"].graphdef.nodedef, p))
  /\ is_graph_node(heap, Resolve(heap, Ref(root), p))
  /\ is_graph_node(heap, Resolve(heap, Ref(root), q))
  /\ Resolve(heap, Ref(root), Append(p, k)) = Resolve(heap, Ref(root), q)

C3_CycleSafety ==
  pc \in {"unflat", "reflat"} =>
    \A p \in Paths \cup {<<>>} : \A q \in Prefixes(p) : \A k \in AttrKeys :
      ClosesCycle(p, q, k) =>
        /\ out["unflat"].err = NoErr
        /\ DescAt(out["flat"].graphdef.nodedef, Append(p, k))
             = BackRef(DescAt(out["flat"].graphdef.nodedef, q).index)
        /\ DescAt(out["flat"].graphdef.nodedef, q).index
             = out["flat"].refmap[Resolve(heap, Ref(root), q).v]
        /\ Resolve(heap, out["unflat"].node, Append(p, k))
             = Resolve(heap, out["unflat"].node, q)

\* a cycle through a chain of two nodes, closed below the root
C3_Witness ==
  /\ Unflattened
  /\ \E p \in Paths : \E q \in Prefixes(p) : \E k \in AttrKeys :
       /\ q # p
       /\ ClosesCycle(p, q, k)
       /\ Resolve(heap, out["unflat"].node, Append(p, k))
            = Resolve(heap, out["unflat"].node, q)

(***************************************************************************)
(* A second graph built separately with the same structure: new objects,   *)
(* other payloads, the attributes of the nodes and the metadata of the     *)
(* leaf cells assigned in the same or in the opposite order.               *)
(***************************************************************************)
Reverse(items) == [i \in 1..Len(items) |-> items[Len(items) + 1 - i]]

ShiftItems(items, n) ==
  [i \in 1..Len(items) |->
     IF items[i].val.t = "ref"
     THEN Attr(items[i].key, Ref(items[i].val.v + n))
     ELSE items[i]]

TwinObject(obj, n, revAttrs, revMeta, payload) ==
  IF obj.kind = "graph"
  THEN GraphNode(obj.type, ShiftItems(IF revAttrs THEN Reverse(obj.attrs) ELSE obj.attrs, n))
  ELSE IF obj.kind = "pytree"
  THEN Pytree(ShiftItems(obj.attrs, n))
  ELSE Variable(obj.type, payload,
                IF revMeta THEN Reverse(obj.metadata) ELSE obj.metadata)

BuildTwin ==
  /\ pc = "init"
  /\ \E revAttrs \in BOOLEAN, revMeta \in BOOLEAN, payload \in 0..MaxPayload :
       /\ heap' = heap \o [i \in 1..Len(heap) |->
                             TwinObject(heap[i], Len(heap), revAttrs, revMeta, payload)]
       /\ inp' = MapPut(inp, "twin", root + Len(heap))
  /\ pc' = "built"
  /\ UNCHANGED <<root, out>>

FlattenPair ==
  /\ pc = "built"
  /\ LET r1 == graph_flatten(heap, root, NoneMapping)
         r2 == graph_flatten(r1.heap, inp["twin"], NoneMapping)
     IN /\ heap' = r2.heap
        /\ out' = MapPut(MapPut(out, "flat", r1), "twin", r2)
  /\ pc' = "pair"
  /\ UNCHANGED <<root, inp>>

NextTwin == BuildTwin \/ FlattenPair

SpecTwin == Init /\ [][NextTwin]_vars

(***************************************************************************)
(* C4  Descriptor determinism: the GraphDefs of two separately built       *)
(* graphs of the same structure are equal and have equal hashes.           *)
(***************************************************************************)
C4_Determinism ==
  pc = "pair" =>
    /\ GraphDefEq(out["flat"].graphdef, out["twin"].graphdef)
    /\ GraphDefHash(out["flat"].graphdef) = GraphDefHash(out["twin"].graphdef)

\* a twin whose leaf metadata was given in the opposite order: the two
\* GraphDefs compare equal and their hashes differ
C4_HashDiffers ==
  /\ pc = "pair"
  /\ GraphDefEq(out["flat"].graphdef, out["twin"].graphdef)
  /\ GraphDefHash(out["flat"].graphdef) # GraphDefHash(out["twin"].graphdef)

\* what the code does guarantee: the two GraphDefs compare equal
C4_EqualDescriptors ==
  pc = "pair" => GraphDefEq(out["flat"].graphdef, out["twin"].graphdef)

(***************************************************************************)
(* Pop engine.                                                             *)
(* A predicate is a function of the path and the leaf; the model has the   *)
(* filter that accepts everything, the filters by leaf type, and a filter  *)
(* on the path.                                                            *)
(***************************************************************************)
Predicates == {"Any", "Param", "BatchStat", "PathHasB"}

predicate(f, h, path, x) ==
  IF f = "Any" THEN TRUE
  ELSE IF f = "PathHasB" THEN \E i \in 1..Len(path) : path[i] = "b"
  ELSE isVariable(h, x) /\ h[x.v].type = f

PopCtx(h, n) ==
  [heap |-> h, id_to_index |-> EmptyMap, flat_states |-> [i \in 1..n |-> <<>>],
   err |-> NoErr]

IdOf(x) == IF x.t = "ref" THEN x.v ELSE 0

\* lines 735-739 without line 735: the leaf is not recorded as visited
PopMatched_norecord(c, node, name, value, node_path, i) ==
  IF get_node_impl(c.heap, node) = "PytreeNodeImpl" THEN Fail(c, "CannotPop")
  ELSE LET h1 == pop_key(c.heap, node, name)
           copy == IF isVariable(h1, value) THEN Ref(NewId(h1)) ELSE value
           h2 == IF isVariable(h1, value) THEN VariableCopy(h1, value.v) ELSE h1
       IN [c EXCEPT !.heap = h2,
                    !.flat_states[i] = Append(@, [path |-> node_path, leaf |-> copy])]

\* lines 731-739: the leaf matched predicate i
PopMatched(c, node, name, value, node_path, i) ==
  IF get_node_impl(c.heap, node) = "PytreeNodeImpl" THEN Fail(c, "CannotPop")
  ELSE LET h1 == pop_key(c.heap, node, name)
           copy == IF isVariable(h1, value) THEN Ref(NewId(h1)) ELSE value
           h2 == IF isVariable(h1, value) THEN VariableCopy(h1, value.v) ELSE h1
       IN [c EXCEPT !.heap = h2,
                    !.id_to_index = MapPut(@, IdOf(value), Cardinality(DOMAIN @)),
                    !.flat_states[i] = Append(@, [path |-> node_path, leaf |-> copy])]

\* lines 729-743: the predicates are tried in order, the first match wins
RECURSIVE PopLeaf(_, _, _, _, _, _, _)
PopLeaf(c, node, name, value, node_path, predicates, i) ==
  IF i > Len(predicates) THEN c
  ELSE IF predicate(predicates[i], c.heap, node_path, value)
  THEN PopMatched(c, node, name, value, node_path, i)
  ELSE PopLeaf(c, node, name, value, node_path, predicates, i + 1)

RECURSIVE _graph_pop(_, _, _, _)
RECURSIVE PopItems(_, _, _, _, _, _)

\* lines 712-743: the loop over the items of node_dict
PopItems(c, node, items, i, path_parts, predicates) ==
  IF i > Len(items) \/ c.err # NoErr THEN c
  ELSE
    LET name == items[i].key
        value == items[i].val
        c1 == IF is_node(c.heap, value)
              THEN _graph_pop(c, value.v, Append(path_parts, name), predicates)
              ELSE IF ~is_state_leaf(c.heap, value) THEN c
              ELSE IF value.t = "ref" /\ value.v \in DOMAIN c.id_to_index THEN c
              ELSE PopLeaf(c, node, name, value, Append(path_parts, name), predicates, 1)
    IN PopItems(c1, node, items, i + 1, path_parts, predicates)

\* lines 695-743
_graph_pop(c, node, path_parts, predicates) ==
  IF node \in DOMAIN c.id_to_index THEN c
  ELSE PopItems([c EXCEPT !.id_to_index = MapPut(@, node, Cardinality(DOMAIN @))],
                node, node_dict(c.heap, node), 1, path_parts, predicates)

\* pop, lines 1083-1103
pop(h, node, filters) ==
  IF Len(filters) = 0
  THEN [heap |-> h, flat_states |-> <<>>, states |-> <<>>, err |-> "NoFilter"]
  ELSE LET c == _graph_pop(PopCtx(h, Len(filters)), node, <<>>, filters)
       IN [heap |-> c.heap, flat_states |-> c.flat_states,
           states |-> [i \in 1..Len(filters) |-> from_flat_path(c.flat_states[i])],
           err |-> c.err]

FilterLists == UNION {[1..n -> Predicates] : n \in 1..2}

Pop ==
  /\ pc = "init"
  /\ \E filters \in FilterLists :
       LET r == pop(heap, root, filters)
       IN /\ heap' = r.heap
          /\ out' = MapPut(out, "pop", r)
          /\ inp' = MapPut(MapPut(inp, "filters", filters), "heap", heap)
  /\ pc' = "popped"
  /\ UNCHANGED root

NextPop == Pop

SpecPop == Init /\ [][NextPop]_vars

(***************************************************************************)
(* C5  Pop exclusivity: a leaf cell is recorded in at most one output      *)
(* table, the table of the first predicate that accepts it at the path     *)
(* where it is recorded.                                                   *)
(***************************************************************************)
\* an entry <<i, n>> is the n-th leaf recorded in the table of predicate i
PopEntries ==
  UNION {{<<i, n>> : n \in 1..Len(out["pop"].flat_states[i])} :
           i \in 1..Len(out["pop"].flat_states)}

PopPath(e) == out["pop"].flat_states[e[1]][e[2]].path
\* the leaf cell that stood at the path of the entry before the call
PopSource(e) == Resolve(inp["heap"], Ref(root), PopPath(e))

Popped == pc = "popped" /\ out["pop"].err = NoErr

C5_PopExclusive ==
  Popped =>
    /\ \A e, f \in PopEntries : e # f => PopSource(e) # PopSource(f)
    /\ \A e \in PopEntries :
         /\ isVariable(inp["heap"], PopSource(e))
         /\ predicate(inp["filters"][e[1]], inp["heap"], PopPath(e), PopSource(e))
         /\ \A j \in 1..(e[1] - 1) :
              ~predicate(inp["filters"][j], inp["heap"], PopPath(e), PopSource(e))

\* a leaf cell held by two slots and accepted by both of two predicates was
\* recorded once, in the first table
C5_Witness ==
  /\ Popped
  /\ Len(inp["filters"]) = 2
  /\ \E e \in PopEntries :
       /\ e[1] = 1
       /\ predicate(inp["filters"][2], inp["heap"], PopPath(e), PopSource(e))
       /\ \E q \in Paths : q # PopPath(e)
                           /\ Resolve(inp["heap"], Ref(root), q) = PopSource(e)

(***************************************************************************)
(* Reuse of live objects: split the root, merge into a copy, change the    *)
(* copy, split the copy against the index map of the merge, and update     *)
(* the original objects from the new descriptor.                           *)
(***************************************************************************)
\* full_split without filters, lines 932-948
full_split(h, graph_node, idxmap) == graph_flatten(h, graph_node, idxmap)

\* full_merge with one state, lines 951-960
full_merge(h, graphdef, state) == graph_unflatten(h, graphdef, state, NoneMapping)

\* full_update with one state, lines 963-979, with the reuse map it builds
full_update_idxmap(refmap, new_graphdef) ==
  [map |-> compose_mapping_reversed(refmap, new_graphdef.index_mapping.map)]

full_update(h, refmap, new_graphdef, state) ==
  IF new_graphdef.index_mapping = NoneMapping
  THEN [heap |-> h, node |-> Ref(0), index_to_ref |-> EmptyMap, err |-> "NoIndexMapping"]
  ELSE graph_unflatten(h, new_graphdef, state, full_update_idxmap(refmap, new_graphdef))

Split ==
  /\ pc = "init"
  /\ LET r == full_split(heap, root, NoneMapping)
     IN /\ heap' = r.heap
        /\ out' = MapPut(out, "split", r)
  /\ pc' = "split"
  /\ UNCHANGED <<root, inp>>

Merge ==
  /\ pc = "split"
  /\ LET r == full_merge(heap, out["split"].graphdef, out["split"].state)
     IN /\ heap' = r.heap
        /\ out' = MapPut(out, "merge", r)
  /\ pc' = "merged"
  /\ UNCHANGED <<root, inp>>

\* the objects built by the merge
Merged == {out["merge"].index_to_ref[i] : i \in DOMAIN out["merge"].index_to_ref}

\* the copy is left as it is
Keep ==
  /\ pc = "merged" /\ out["merge"].err = NoErr
  /\ pc' = "edited"
  /\ UNCHANGED <<heap, root, out, inp>>

\* setattr(node, k, x) on a node of the copy
SetAttr ==
  /\ pc = "merged" /\ out["merge"].err = NoErr
  /\ \E n \in {m \in Merged : heap[m].kind = "graph"}, k \in AttrKeys,
        x \in {Static(0)} \cup {Ref(o) : o \in Merged} :
       heap' = [heap EXCEPT ![n].attrs = Put(@, k, x)]
  /\ pc' = "edited"
  /\ UNCHANGED <<root, out, inp>>

\* delattr(node, k) on the root of the copy
DelAttr ==
  /\ pc = "merged" /\ out["merge"].err = NoErr
  /\ \E k \in AttrKeys :
       /\ HasKey(heap[out["merge"].node.v].attrs, k)
       /\ heap' = [heap EXCEPT ![out["merge"].node.v].attrs = DelKey(@, k)]
  /\ pc' = "edited"
  /\ UNCHANGED <<root, out, inp>>

Resplit ==
  /\ pc = "edited"
  /\ LET r == full_split(heap, out["merge"].node.v, [map |-> out["merge"].index_to_ref])
     IN /\ heap' = r.heap
        /\ out' = MapPut(out, "resplit", r)
  /\ pc' = "resplit"
  /\ UNCHANGED <<root, inp>>

Update ==
  /\ pc = "resplit"
  /\ LET r == full_update(heap, out["split"].refmap, out["resplit"].graphdef,
                          out["resplit"].state)
     IN /\ heap' = r.heap
        /\ out' = MapPut(out, "update", r)
        /\ inp' = MapPut(inp, "heap", heap)
  /\ pc' = "updated"
  /\ UNCHANGED root

NextReuse == Split \/ Merge \/ Keep \/ SetAttr \/ DelAttr \/ Resplit \/ Update

SpecReuse == Init /\ [][NextReuse]_vars

(***************************************************************************)
(* C6  Reuse map: the object built for an index that the reuse map gives   *)
(* to an existing graph node is that object, its fields afterwards are     *)
(* the attributes of the descriptor, and the root returned by full_update  *)
(* is the original root.                                                   *)
(***************************************************************************)
ReuseMap == full_update_idxmap(out["split"].refmap, out["resplit"].graphdef).map

\* the NodeDefs of mutable graph nodes in the new descriptor
ReuseDefs ==
  {d \in {DescAt(out["resplit"].graphdef.nodedef, p) : p \in Paths \cup {<<>>}} :
     IsNodeDef(d) /\ d.index >= 0}

C6_ReuseMap ==
  pc = "updated" =>
    /\ out["update"].err = NoErr
    /\ out["update"].node = Ref(root)
    /\ \A d \in ReuseDefs :
         d.index \in DOMAIN ReuseMap =>
           /\ out["update"].index_to_ref[d.index] = ReuseMap[d.index]
           /\ ReuseMap[d.index] <= Len(inp["heap"])
           /\ KeySet(heap[ReuseMap[d.index]].attrs)
                = {d.attributes[i] : i \in 1..Len(d.attributes)}

\* two original nodes were reused after the copy of the root lost a field
C6_Witness ==
  /\ pc = "updated"
  /\ out["update"].err = NoErr
  /\ Cardinality({d \in ReuseDefs : d.index \in DOMAIN ReuseMap}) = 2
  /\ KeySet(heap[root].attrs) # KeySet(inp["heap"][root].attrs)
  /\ Len(heap) = Len(inp["heap"])

(***************************************************************************)
(* Dynamic update engine.                                                  *)
(***************************************************************************)
\* a dict of the nested leaf table stored as an attribute becomes a tree node
RECURSIVE AllocItems(_, _, _, _)
AllocItems(h, d, i, items) ==
  IF i > Len(d) THEN [heap |-> Alloc(h, Pytree(items)), val |-> Ref(NewId(h))]
  ELSE IF d[i].val.t = "dict"
  THEN LET r == AllocItems(h, d[i].val.d, 1, <<>>)
       IN AllocItems(r.heap, d, i + 1, Append(items, Attr(d[i].key, r.val)))
  ELSE AllocItems(h, d, i + 1, Append(items, d[i]))

UpdateCtx(h) == [heap |-> h, err |-> NoErr]

\* lines 754-763 without the guard of lines 755-759
UpdateNewKey_anynode(c, node, key, value) ==
  IF isVariable(c.heap, value)
  THEN [c EXCEPT !.heap = [VariableCopy(c.heap, value.v) EXCEPT
                             ![node].attrs = Put(@, key, Ref(NewId(c.heap)))]]
  ELSE [c EXCEPT !.heap = [@ EXCEPT ![node].attrs = Put(@, key, value)]]

\* lines 754-763: the key is new on the node
UpdateNewKey(c, node, key, value) ==
  IF get_node_impl(c.heap, node) = "PytreeNodeImpl" THEN Fail(c, "ImmutableSetKey")
  ELSE IF isVariable(c.heap, value)
  THEN LET h1 == VariableCopy(c.heap, value.v)
           copy == Ref(NewId(c.heap))
       IN IF set_key_ok(h1, node, key, copy)
          THEN [c EXCEPT !.heap = set_key(h1, node, key, copy)]
          ELSE Fail(c, "IncompatibleVariable")
  ELSE IF value.t = "dict"
  THEN LET r == AllocItems(c.heap, value.d, 1, <<>>)
       IN [c EXCEPT !.heap = set_key(r.heap, node, key, r.val)]
  ELSE [c EXCEPT !.heap = set_key(c.heap, node, key, value)]

\* lines 773-780 with the field rebound to a copy of the new leaf cell
UpdateVariable_replace(c, node, key, current_value, value) ==
  IF ~isVariable(c.heap, current_value) THEN Fail(c, "NonVariableTarget")
  ELSE IF ~copy_from_ok(c.heap, current_value.v, value.v)
  THEN Fail(c, "IncompatibleVariable")
  ELSE [c EXCEPT !.heap = [VariableCopy(c.heap, value.v) EXCEPT
                             ![node].attrs = Put(@, key, Ref(NewId(c.heap)))]]

\* lines 773-780: a leaf cell is absorbed by the leaf cell of the field
UpdateVariable(c, node, key, current_value, value) ==
  IF ~isVariable(c.heap, current_value) THEN Fail(c, "NonVariableTarget")
  ELSE IF ~copy_from_ok(c.heap, current_value.v, value.v)
  THEN Fail(c, "IncompatibleVariable")
  ELSE [c EXCEPT !.heap = copy_from(@, current_value.v, value.v)]

\* lines 781-788 with the node cleared before the field is set
UpdateStateLeaf_clear(c, node, key, value) ==
  IF get_node_impl(c.heap, node) = "PytreeNodeImpl" THEN Fail(c, "ImmutableSetKey")
  ELSE [c EXCEPT !.heap = set_key(clear(@, node), node, key, value)]

\* lines 781-788: a raw state leaf replaces the field
UpdateStateLeaf(c, node, key, value) ==
  IF get_node_impl(c.heap, node) = "PytreeNodeImpl" THEN Fail(c, "ImmutableSetKey")
  ELSE [c EXCEPT !.heap = set_key(@, node, key, value)]

RECURSIVE _graph_update_dynamic(_, _, _)
RECURSIVE UpdateItems(_, _, _, _, _)

\* lines 752-792: the loop over the items of state; node_dict was read on entry
UpdateItems(c, node, node_dict0, state, i) ==
  IF i > Len(state) \/ c.err # NoErr THEN c
  ELSE
    LET key == state[i].key
        value == state[i].val
        c1 == IF ~HasKey(node_dict0, key) THEN UpdateNewKey(c, node, key, value)
              ELSE LET current_value == Get(node_dict0, key)
                   IN IF is_node(c.heap, current_value)
                      THEN IF is_state_leaf(c.heap, value)
                           THEN Fail(c, "ExpectedSubgraph")
                           ELSE _graph_update_dynamic(c, current_value.v, value.d)
                      ELSE IF isVariable(c.heap, value)
                      THEN UpdateVariable(c, node, key, current_value, value)
                      ELSE IF is_state_leaf(c.heap, value)
                      THEN UpdateStateLeaf(c, node, key, value)
                      ELSE Fail(c, "UnsupportedUpdate")
    IN UpdateItems(c1, node, node_dict0, state, i + 1)

\* lines 746-792
_graph_update_dynamic(c, node, state) ==
  UpdateItems(c, node, node_dict(c.heap, node), state, 1)

\* update with one state, lines 1024-1028
update(h, node, state) ==
  LET c == _graph_update_dynamic(UpdateCtx(h), node, state)
  IN [heap |-> c.heap, err |-> c.err]

(***************************************************************************)
(* The nested leaf tables given to update: one entry that is a leaf or a   *)
(* dict of one leaf, and at most one more entry that is a leaf cell.  A    *)
(* leaf is a Param cell or a raw array; the cells are allocated by the     *)
(* caller, the first with payload 2 and the second with payload 3.         *)
(***************************************************************************)
LeafKinds == {"Param", "Arr"}

TableShapes ==
  {<<[key |-> k, nested |-> n, leaf |-> l]>> :
     k \in Keys, n \in Keys \cup {"-"}, l \in LeafKinds}
  \cup
  {<<[key |-> k, nested |-> n, leaf |-> l], [key |-> k2, nested |-> "-", leaf |-> "Param"]>> :
     k \in Keys, n \in Keys \cup {"-"}, l \in LeafKinds, k2 \in Keys}

\* the leaf of entry i, once the cells of the table are in the heap
TableLeaf(h, shape, i) ==
  IF shape[i].leaf = "Arr" THEN Arr(1)
  ELSE Ref(Len(h) + Cardinality({j \in 1..i : shape[j].leaf # "Arr"}))

TableCells(shape) ==
  LET cells == SelectSeq(shape, LAMBDA e : e.leaf # "Arr")
  IN [i \in 1..Len(cells) |-> Variable(cells[i].leaf, 1 + i, <<>>)]

MakeTable(h, shape) ==
  [i \in 1..Len(shape) |->
     Attr(shape[i].key,
          IF shape[i].nested = "-" THEN TableLeaf(h, shape, i)
          ELSE Dict(<<Attr(shape[i].nested, TableLeaf(h, shape, i))>>))]

\* the paths of the table: its leaves and the dicts above them
RECURSIVE TablePaths(_)
TablePaths(d) ==
  UNION {{<<d[i].key>>} \cup
         (IF d[i].val.t = "dict"
          THEN {<<d[i].key>> \o q : q \in TablePaths(d[i].val.d)} ELSE {}) :
         i \in 1..Len(d)}

RECURSIVE TableAt(_, _)
TableAt(d, path) ==
  IF ~HasKey(d, Head(path)) THEN Missing
  ELSE IF Len(path) = 1 THEN Get(d, Head(path))
  ELSE IF Get(d, Head(path)).t = "dict" THEN TableAt(Get(d, Head(path)).d, Tail(path))
  ELSE Missing

DynUpdate ==
  /\ pc = "init"
  /\ \E shape \in TableShapes :
       /\ shape[Len(shape)].key # shape[1].key \/ Len(shape) = 1
       /\ LET h0 == heap \o TableCells(shape)
              table == MakeTable(heap, shape)
              r == update(h0, root, table)
          IN /\ heap' = r.heap
             /\ out' = MapPut(out, "update", r)
             /\ inp' = MapPut(MapPut(inp, "table", table), "heap", h0)
  /\ pc' = "dyn"
  /\ UNCHANGED root

NextUpdate == DynUpdate

SpecUpdate == Init /\ [][NextUpdate]_vars

(***************************************************************************)
(* Reading an update: the graph before the call is inp["heap"], the table  *)
(* is inp["table"], the graph after the call is heap.                      *)
(***************************************************************************)
UPaths == UNION {[1..n -> Keys] : n \in 1..MaxDepth}
Updated == pc = "dyn"
Before(path) == Resolve(inp["heap"], Ref(root), path)
After(path) == Resolve(heap, Ref(root), path)
Owner(path) == Before(SubSeq(path, 1, Len(path) - 1))
Last(path) == path[Len(path)]

\* what a path shows: the object and, for a leaf cell, its payload
Shown(h, x) == IF isVariable(h, x) THEN [obj |-> x, raw_value |-> h[x.v].raw_value]
               ELSE [obj |-> x]

\* the paths of the table that end in a leaf
LeafPaths(table) == {p \in TablePaths(table) : TableAt(table, p).t # "dict"}

\* entry p gives a leaf cell to a field that holds a leaf cell
Absorbs(p) ==
  /\ p \in LeafPaths(inp["table"])
  /\ isVariable(inp["heap"], TableAt(inp["table"], p))
  /\ isVariable(inp["heap"], Before(p))

\* p and q address the same field of the same object, or the same leaf cell
SameTarget(p, q) ==
  \/ Owner(p) # Missing /\ Owner(p) = Owner(q) /\ Last(p) = Last(q)
  \/ isVariable(inp["heap"], Before(p)) /\ Before(p) = Before(q)

AbsorbedAt(p) ==
  /\ After(p) = Before(p)
  /\ heap[Before(p).v].raw_value = inp["heap"][TableAt(inp["table"], p).v].raw_value

\* C7 as stated: after update returns, every key of the table that gives a
\* leaf cell to a field holding a leaf cell leaves the field holding the same
\* leaf cell object, whose payload is the new value.
C7_AbsorbEveryKey ==
  (Updated /\ out["update"].err = NoErr) =>
    \A p \in LeafPaths(inp["table"]) : Absorbs(p) => AbsorbedAt(p)

\* C7 amended: the same, for every such key whose field and leaf cell no
\* other entry of the table addresses (through a shared reference or a cycle).
C7_Absorb ==
  (Updated /\ out["update"].err = NoErr) =>
    \A p \in LeafPaths(inp["table"]) :
      (Absorbs(p) /\ \A q \in LeafPaths(inp["table"]) \ {p} : ~SameTarget(p, q))
        => AbsorbedAt(p)

\* a table of two entries, the first absorbed one level down by a leaf cell
\* that had another payload
C7_Witness ==
  /\ Updated /\ out["update"].err = NoErr
  /\ Len(inp["table"]) = 2
  /\ \E p \in LeafPaths(inp["table"]) :
       /\ Len(p) = 2 /\ Absorbs(p)
       /\ \A q \in LeafPaths(inp["table"]) \ {p} : ~SameTarget(p, q)
       /\ inp["heap"][Before(p).v].raw_value # heap[Before(p).v].raw_value
       /\ AbsorbedAt(p)

\* C8 as stated: whatever a path that is not in the table shows (node, leaf
\* cell payload, static field) is the same after update, and no node is
\* removed or replaced.
C8_FrameByPath ==
  Updated =>
    /\ \A p \in UPaths \ TablePaths(inp["table"]) :
         Shown(heap, After(p)) = Shown(inp["heap"], Before(p))
    /\ \A p \in UPaths : is_node(inp["heap"], Before(p)) => After(p) = Before(p)

\* the fields and the leaf cells that the paths of the table reach
TableSlots ==
  {<<Owner(p).v, Last(p)>> : p \in {q \in TablePaths(inp["table"]) : Owner(q) # Missing}}
TableCellIds ==
  {Before(p).v : p \in {q \in TablePaths(inp["table"]) : isVariable(inp["heap"], Before(q))}}
FieldOf(h, n, k) == IF HasKey(h[n].attrs, k) THEN Get(h[n].attrs, k) ELSE Missing

\* C8 amended: update changes only the fields that a path of the table
\* reaches and the leaf cells those fields hold (whatever other paths also
\* lead to them); every other field and leaf cell of the graph is unchanged,
\* and no node is removed or replaced.
C8_Frame ==
  Updated =>
    /\ \A n \in Reach(inp["heap"], {root}) :
         IF inp["heap"][n].kind = "var"
         THEN n \notin TableCellIds => heap[n] = inp["heap"][n]
         ELSE \A k \in Keys :
                /\ <<n, k>> \notin TableSlots
                     => FieldOf(heap, n, k) = FieldOf(inp["heap"], n, k)
                /\ is_node(inp["heap"], FieldOf(inp["heap"], n, k))
                     => FieldOf(heap, n, k) = FieldOf(inp["heap"], n, k)

\* root {a: leaf(0), b: node {a: leaf(1)}} updated with {a: leaf(2)}: a has
\* payload 2, b and b.a are as before
C8_Witness ==
  /\ Updated /\ out["update"].err = NoErr
  /\ SeqKeys(inp["table"]) = <<"a">>
  /\ isVariable(inp["heap"], Before(<<"a">>)) /\ inp["heap"][Before(<<"a">>).v].raw_value = 0
  /\ isVariable(heap, After(<<"a">>)) /\ heap[After(<<"a">>).v].raw_value = 2
  /\ is_node(heap, After(<<"b">>)) /\ After(<<"b">>) = Before(<<"b">>)
  /\ isVariable(heap, After(<<"b", "a">>)) /\ After(<<"b", "a">>) = Before(<<"b", "a">>)
  /\ heap[After(<<"b", "a">>).v].raw_value = 1

\* entry p gives a new key to an immutable tree node
NewKeyOnPytree(p) ==
  /\ p \in TablePaths(inp["table"])
  /\ is_pytree_node(inp["heap"], Owner(p))
  /\ ~HasKey(inp["heap"][Owner(p).v].attrs, Last(p))

\* C9  Updating an immutable tree node with a key it does not have raises
\* the immutability error, and the node is not given the key.
C9_ImmutableNewKey ==
  Updated =>
    \A p \in TablePaths(inp["table"]) :
      NewKeyOnPytree(p) =>
        /\ out["update"].err = "ImmutableSetKey"
        /\ heap[Owner(p).v] = inp["heap"][Owner(p).v]

C9_Witness ==
  /\ Updated
  /\ \E p \in TablePaths(inp["table"]) :
       /\ NewKeyOnPytree(p)
       /\ isVariable(inp["heap"], TableAt(inp["table"], p))
       /\ out["update"].err = "ImmutableSetKey"
       /\ After(p) = Missing

(***************************************************************************)
(* Unflattening with a leaf table that has one more key than flatten gave: *)
(* key "c", which no node of the initial graphs has, with a raw array, at  *)
(* the root or at the level of a node of the graph.                        *)
(***************************************************************************)
Levels ==
  {<<>>} \cup {q \in UNION {[1..n -> AttrKeys] : n \in 1..(MaxDepth - 1)} :
                 is_node(heap, Resolve(heap, Ref(root), q))}

UnflattenWith ==
  /\ pc = "flat"
  /\ \E q \in Levels :
       LET table == NestInsert(out["flat"].state, q \o <<"c">>, Arr(1))
           r == graph_unflatten(heap, out["flat"].graphdef, table, NoneMapping)
       IN /\ heap' = r.heap
          /\ out' = MapPut(out, "unflatx", r)
          /\ inp' = MapPut(MapPut(inp, "table", table), "level", q)
  /\ pc' = "unflatx"
  /\ UNCHANGED root

NextUnflat == Flatten \/ UnflattenWith

SpecUnflat == Init /\ [][NextUnflat]_vars

\* C10  graph_unflatten raises the unknown-key error whenever the leaf table
\* has, at the root or at a nested level, a key that is not an attribute of
\* the descriptor node of that level.
C10_UnknownKey ==
  pc = "unflatx" => out["unflatx"].err = "UnknownKey"

\* the levels that the descriptor spells out as a node descriptor; the other
\* levels are under a key whose entry is a back-reference
SpelledOut(q) == IsNodeDef(DescAt(out["flat"].graphdef.nodedef, q))

\* at a level that the descriptor spells out, the unknown key is refused
C10_UnknownKeySpelledOut ==
  (pc = "unflatx" /\ SpelledOut(inp["level"])) => out["unflatx"].err = "UnknownKey"

\* an unknown key two levels down, refused
C10_Raised ==
  /\ pc = "unflatx" /\ Len(inp["level"]) = 2 /\ SpelledOut(inp["level"])
  /\ out["unflatx"].err = "UnknownKey"

\* an unknown key under a back-reference, accepted: the call returns a node
C10_Accepted ==
  /\ pc = "unflatx" /\ ~SpelledOut(inp["level"])
  /\ out["unflatx"].err = NoErr

(***************************************************************************)
(* Static update engine.                                                   *)
(* cache maps the identity of an updates object to its status; reached is  *)
(* the record of how each updates node was come upon: under a name that    *)
(* the target has ("UPDATED") or under a name that it lacks ("NEW").       *)
(***************************************************************************)
StaticCtx(h) == [heap |-> h, cache |-> EmptyMap, reached |-> {}, err |-> NoErr]

Reached(c, updates, status) == [c EXCEPT !.reached = @ \cup {<<updates.v, status>>}]

\* lines 863-881 without the check of lines 871-877
StaticNewSubgraph_nocheck(c, node, name, value_updates) ==
  IF get_node_impl(c.heap, node) = "PytreeNodeImpl" THEN Fail(c, "ImmutableSetKey")
  ELSE [c EXCEPT !.cache = IF value_updates.v \in DOMAIN c.cache THEN @
                           ELSE MapPut(@, value_updates.v, "NEW"),
                 !.heap = set_key(@, node, name, value_updates)]

\* lines 863-881: a subgraph under a name that the target lacks
StaticNewSubgraph(c, node, name, value_updates) ==
  IF get_node_impl(c.heap, node) = "PytreeNodeImpl" THEN Fail(c, "ImmutableSetKey")
  ELSE IF value_updates.v \in DOMAIN c.cache /\ c.cache[value_updates.v] # "NEW"
  THEN Fail(c, "AliasNew")
  ELSE [c EXCEPT !.cache = IF value_updates.v \in DOMAIN c.cache THEN @
                           ELSE MapPut(@, value_updates.v, "NEW"),
                 !.heap = set_key(@, node, name, value_updates)]

\* lines 882-894: a static field; the message of lines 888-892 reads
\* node_dict[name], which raises KeyError when the target lacks the name
StaticField(c, node, node_dict0, name, value_updates) ==
  IF get_node_impl(c.heap, node) = "PytreeNodeImpl"
  THEN IF HasKey(node_dict0, name) /\ Get(node_dict0, name) = value_updates THEN c
       ELSE IF ~HasKey(node_dict0, name) THEN Fail(c, "KeyError")
       ELSE Fail(c, "ImmutableUpdateKey")
  ELSE [c EXCEPT !.heap = set_key(@, node, name, value_updates)]

RECURSIVE _graph_update_static(_, _, _, _)
RECURSIVE StaticItems(_, _, _, _, _)

\* lines 848-894: the loop over the items of updates
StaticItems(c, node, node_dict0, updates_dict, i) ==
  IF i > Len(updates_dict) \/ c.err # NoErr THEN c
  ELSE
    LET name == updates_dict[i].key
        value_updates == updates_dict[i].val
        c1 == IF is_state_leaf(c.heap, value_updates) THEN c
              ELSE IF is_node(c.heap, value_updates)
              THEN IF HasKey(node_dict0, name)
                   THEN _graph_update_static(Reached(c, value_updates, "UPDATED"),
                                             Get(node_dict0, name), value_updates, "UPDATED")
                   ELSE StaticNewSubgraph(Reached(c, value_updates, "NEW"),
                                          node, name, value_updates)
              ELSE StaticField(c, node, node_dict0, name, value_updates)
    IN StaticItems(c1, node, node_dict0, updates_dict, i + 1)

\* lines 812-894; node and updates are values, updates a node
_graph_update_static(c, node, updates, status) ==
  IF TypeOf(c.heap, node) # TypeOf(c.heap, updates) THEN Fail(c, "DifferentType")
  ELSE IF ~is_node(c.heap, node) THEN Fail(c, "UnsupportedNode")
  ELSE IF updates.v \in DOMAIN c.cache
  THEN IF c.cache[updates.v] # status THEN Fail(c, "AliasUpdated") ELSE c
  ELSE StaticItems([c EXCEPT !.cache = MapPut(@, updates.v, status)],
                   node.v, node_dict(c.heap, node.v), node_dict(c.heap, updates.v), 1)

\* graph_update_static, lines 807-809
graph_update_static(h, node, updates) ==
  LET c == _graph_update_static(StaticCtx(h), Ref(node), Ref(updates), "UPDATED")
  IN [heap |-> c.heap, cache |-> c.cache, reached |-> c.reached, err |-> c.err]

(***************************************************************************)
(* The updates graphs given to graph_update_static: a second graph built   *)
(* apart from the target, of a root (Foo), a graph node (Bar), a tree node *)
(* (dict) and a leaf cell; the root has the slots "a" and "b", the two     *)
(* other nodes the slot "a".  NewStatic is a static value no target has.   *)
(***************************************************************************)
NewStatic == Static(MaxStatic + 1)

UpdatesRootVals(n) == {None, NewStatic, Ref(n + 1), Ref(n + 2), Ref(n + 3), Ref(n + 4)}
UpdatesBarVals(n) == {None, Ref(n + 1), Ref(n + 2), Ref(n + 3)}
UpdatesDictVals(n) == {None, Static(0), NewStatic}

OneSlot(x) == IF x = None THEN <<>> ELSE <<Attr("a", x)>>

UpdatesHeap(n, ra, rb, x, d) ==
  <<GraphNode(ClassOf[1], AttrsOf([a |-> ra, b |-> rb], FALSE)),
    GraphNode(ClassOf[2], OneSlot(x)),
    Pytree(OneSlot(d)),
    Variable(ClassOf[4], PayloadOf[4], MetadataOf[4])>>

\* the nodes that the updates root does not reach are left blank
UpdatesFamily(n) ==
  {u \in UpdatesRootVals(n) \X UpdatesRootVals(n) \X UpdatesBarVals(n) \X UpdatesDictVals(n) :
     LET direct == {u[1], u[2]}
         bar == Ref(n + 2) \in direct
         dict == Ref(n + 3) \in direct \/ (bar /\ u[3] = Ref(n + 3))
     IN /\ direct # {None}
        /\ (~bar => u[3] = None)
        /\ (~dict => u[4] = None)}

StaticUpdate ==
  /\ pc = "init"
  /\ NumAttrs(heap) < MaxAttrs
  /\ \E u \in UpdatesFamily(Len(heap)) :
       LET h0 == heap \o UpdatesHeap(Len(heap), u[1], u[2], u[3], u[4])
           updates == Len(heap) + 1
           r == graph_update_static(h0, root, updates)
       IN /\ heap' = r.heap
          /\ out' = MapPut(out, "static", r)
          /\ inp' = MapPut(MapPut(inp, "heap", h0), "updates", updates)
  /\ pc' = "static"
  /\ UNCHANGED root

NextStatic == StaticUpdate

SpecStatic == Init /\ [][NextStatic]_vars

StaticDone == pc = "static"

\* C11  Aliasing consistency: when one updates object is come upon both
\* under a name that the target lacks and under a name that the target has,
\* in either order, graph_update_static raises an error.
C11_AliasingRaises ==
  StaticDone =>
    \A x \in 1..Len(inp["heap"]) :
      ({<<x, "NEW">>, <<x, "UPDATED">>} \subseteq out["static"].reached)
        => out["static"].err # NoErr

\* one updates node held under "a" and "b" of the updates root; the target
\* root has a node under one of the two names only, and the call raises the
\* error of the cache
C11_WitnessNewFirst ==
  /\ StaticDone
  /\ out["static"].err = "AliasUpdated"
  /\ \E x \in 1..Len(inp["heap"]) :
       {<<x, "NEW">>, <<x, "UPDATED">>} \subseteq out["static"].reached

(***************************************************************************)
(* The first-visit pre-order of a graph: the mutable graph nodes and leaf  *)
(* cells in the order in which a walk from the root over each node's       *)
(* attribute order comes upon them for the first time.                     *)
(***************************************************************************)
InSeq(seq, x) == \E i \in 1..Len(seq) : seq[i] = x

RECURSIVE FirstVisits(_, _, _)
RECURSIVE FirstVisitsItems(_, _, _, _)
FirstVisitsItems(h, items, i, seen) ==
  IF i > Len(items) THEN seen
  ELSE FirstVisitsItems(h, items, i + 1, FirstVisits(h, items[i].val, seen))
FirstVisits(h, x, seen) ==
  IF x.t # "ref" THEN seen
  ELSE IF h[x.v].kind = "pytree"
  THEN FirstVisitsItems(h, node_flatten(h, x.v).nodes, 1, seen)
  ELSE IF InSeq(seen, x.v) THEN seen
  ELSE IF h[x.v].kind = "var" THEN Append(seen, x.v)
  ELSE FirstVisitsItems(h, node_flatten(h, x.v).nodes, 1, Append(seen, x.v))

Flattened == pc = "flat" /\ out["flat"].err = NoErr
Tracked == {n \in Reach(heap, {root}) : heap[n].kind # "pytree"}
AllPaths == {<<>>} \cup Paths

\* the index that the descriptor entry d states for the object it describes
StatedIndex(d) == IF IsInt(d) THEN d.backref ELSE d.index

\* C12  After graph_flatten the identity map has as keys exactly the mutable
\* graph nodes and leaf cells reachable from the root, as values exactly
\* 0..n-1 without repeats, in first-visit pre-order, and every NodeDef,
\* VariableDef and back-reference states the index of the object it describes.
C12_DenseBijection ==
  Flattened =>
    LET refmap == out["flat"].refmap
        order == FirstVisits(heap, Ref(root), <<>>)
    IN /\ DOMAIN refmap = Tracked
       /\ {refmap[n] : n \in DOMAIN refmap} = 0..(Cardinality(Tracked) - 1)
       /\ Len(order) = Cardinality(Tracked)
       /\ \A i \in 1..Len(order) : refmap[order[i]] = i - 1
       /\ \A p \in AllPaths :
            LET d == DescAt(out["flat"].graphdef.nodedef, p)
                x == Resolve(heap, Ref(root), p)
            IN (d # Missing /\ x.t = "ref" /\ heap[x.v].kind # "pytree")
                 => StatedIndex(d) = refmap[x.v]

\* a graph node found below a tree node after a leaf cell: it has index 2
C12_Witness ==
  /\ Flattened
  /\ 3 \in Reach(heap, {root})
  /\ Cardinality(DOMAIN out["flat"].refmap) = 3
  /\ 2 \in DOMAIN out["flat"].refmap /\ out["flat"].refmap[2] = 2

(***************************************************************************)
(* The walk of graph_unflatten over a descriptor: the attributes of each   *)
(* NodeDef in the order of its attribute tuple, a graph node's index       *)
(* registered before its children.  defined is the set of indices          *)
(* registered so far, ok is FALSE once a back-reference is met before      *)
(* its index or a NodeDef or VariableDef index is met twice.               *)
(***************************************************************************)
RECURSIVE DescWalk(_, _)
RECURSIVE DescWalkAttrs(_, _, _)
DescWalkAttrs(d, i, w) ==
  IF i > Len(d.attributes) THEN w
  ELSE LET key == d.attributes[i]
           w1 == IF key \in DOMAIN d.subgraphs THEN DescWalk(d.subgraphs[key], w)
                 ELSE IF key \in DOMAIN d.variables THEN DescWalk(d.variables[key], w)
                 ELSE w
       IN DescWalkAttrs(d, i + 1, w1)
DescWalk(d, w) ==
  IF IsInt(d) THEN [w EXCEPT !.ok = @ /\ d.backref \in w.defined]
  ELSE IF IsVariableDef(d)
  THEN [defined |-> w.defined \cup {d.index}, ok |-> w.ok /\ d.index \notin w.defined]
  ELSE IF d.index = -1 THEN DescWalkAttrs(d, 1, w)
  ELSE DescWalkAttrs(d, 1, [defined |-> w.defined \cup {d.index},
                            ok |-> w.ok /\ d.index \notin w.defined])

\* C13  In a descriptor produced by graph_flatten every back-reference comes,
\* in the order of the unflatten walk, after the NodeDef or VariableDef of
\* its index, and graph_unflatten of it with the leaf table of flatten never
\* looks up an unregistered index nor finds a NodeDef index registered.
C13_NoForwardReference ==
  /\ Flattened =>
       DescWalk(out["flat"].graphdef.nodedef, [defined |-> {}, ok |-> TRUE]).ok
  /\ pc = "unflat" => out["unflat"].err \notin {"KeyError", "IndexAlreadyUsed"}

\* a leaf cell held by the root and again by a node below it: the second
\* slot is a back-reference, and unflatten finds its index registered
C13_Witness ==
  /\ pc = "unflat" /\ out["unflat"].err = NoErr
  /\ \E p \in Paths :
       /\ Len(p) = 2
       /\ IsInt(DescAt(out["flat"].graphdef.nodedef, p))
       /\ isVariable(heap, Resolve(heap, Ref(root), p))
       /\ \E k \in AttrKeys :
            Resolve(heap, out["unflat"].node, p) = Resolve(heap, out["unflat"].node, <<k>>)

(***************************************************************************)
(* Unflattening with the leaf table of flatten to which an empty nested    *)
(* table is added under the key of a node that had no entry.               *)
(***************************************************************************)
UnflattenUnder ==
  /\ pc = "flat"
  /\ \E q \in Levels \ {<<>>} :
       LET table == IF TableAt(out["flat"].state, q) = Missing
                    THEN NestInsert(out["flat"].state, q, Dict(<<>>))
                    ELSE out["flat"].state
           r == graph_unflatten(heap, out["flat"].graphdef, table, NoneMapping)
       IN /\ heap' = r.heap
          /\ out' = MapPut(out, "unflatu", r)
          /\ inp' = MapPut(MapPut(inp, "table", table), "level", q)
  /\ pc' = "unflatu"
  /\ UNCHANGED root

NextUnder == Flatten \/ UnflattenUnder

SpecUnder == Init /\ [][NextUnder]_vars

\* C14  Whenever graph_unflatten returns normally, each node it built has a
\* field for every name of its descriptor's attribute tuple, also when the
\* leaf table has an entry under a key whose descriptor entry is a
\* back-reference.
C14_EveryAttribute ==
  (pc = "unflatu" /\ out["unflatu"].err = NoErr) =>
    \A p \in AllPaths :
      LET d == DescAt(out["flat"].graphdef.nodedef, p)
      IN IsNodeDef(d) =>
           \A i \in 1..Len(d.attributes) :
             Resolve(heap, out["unflatu"].node, Append(p, d.attributes[i])) # Missing

\* the table has an entry under a key whose descriptor entry is a
\* back-reference, the call returns, and the node has no field of that key
C14_Dropped ==
  /\ pc = "unflatu" /\ out["unflatu"].err = NoErr
  /\ IsInt(DescAt(out["flat"].graphdef.nodedef, inp["level"]))
  /\ TableAt(inp["table"], inp["level"]) # Missing
  /\ Resolve(heap, out["unflatu"].node, inp["level"]) = Missing

\* with an entry under the key of a spelled-out NodeDef every attribute is there
C14_EveryAttributeSpelledOut ==
  (pc = "unflatu" /\ out["unflatu"].err = NoErr /\ SpelledOut(inp["level"])) =>
    \A p \in AllPaths :
      LET d == DescAt(out["flat"].graphdef.nodedef, p)
      IN IsNodeDef(d) =>
           \A i \in 1..Len(d.attributes) :
             Resolve(heap, out["unflatu"].node, Append(p, d.attributes[i])) # Missing

\* the values held by the fields of the nodes that the root reaches
HeldValues ==
  UNION {{heap[n].attrs[i].val : i \in 1..Len(heap[n].attrs)} :
           n \in {m \in Reach(heap, {root}) : heap[m].kind # "var"}}

\* C15  After pop returns normally no field of a node reachable from the
\* root holds a leaf cell that was recorded in an output table, also when
\* the leaf cell was held by two fields.
C15_PopRemoves ==
  Popped => \A e \in PopEntries : PopSource(e) \notin HeldValues

\* a leaf cell held by two fields was recorded once and is still held
C15_LeftBehind ==
  /\ Popped
  /\ \E e \in PopEntries :
       /\ PopSource(e) \in HeldValues
       /\ \E q \in Paths : q # PopPath(e)
                           /\ Resolve(inp["heap"], Ref(root), q) = PopSource(e)

\* the fields that held the value x before the call
HoldersBefore(x) ==
  {<<n, i>> \in (1..Len(inp["heap"])) \X (1..MaxAttrs) :
     /\ inp["heap"][n].kind # "var"
     /\ i <= Len(inp["heap"][n].attrs)
     /\ inp["heap"][n].attrs[i].val = x}

\* a recorded leaf cell that one field held is held by no field
C15_PopRemovesUnshared ==
  Popped =>
    \A e \in PopEntries :
      Cardinality(HoldersBefore(PopSource(e))) = 1 => PopSource(e) \notin HeldValues

\* C16  Every NodeDef that graph_flatten produces for an immutable tree node
\* has index -1, the identity map holds no immutable tree node, and every
\* slot that holds an immutable tree node is encoded as a full NodeDef,
\* never as a back-reference.
C16_PytreeUntracked ==
  Flattened =>
    /\ \A n \in DOMAIN out["flat"].refmap : heap[n].kind # "pytree"
    /\ \A p \in Paths :
         LET d == DescAt(out["flat"].graphdef.nodedef, p)
         IN (d # Missing /\ is_pytree_node(heap, Resolve(heap, Ref(root), p)))
              => IsNodeDef(d) /\ d.index = -1 /\ d.type = "PytreeType"

\* one tree node with a field, held by two slots: two full NodeDefs
C16_Witness ==
  /\ Flattened
  /\ \E p, q \in Paths :
       /\ p # q
       /\ is_pytree_node(heap, Resolve(heap, Ref(root), p))
       /\ Resolve(heap, Ref(root), p) = Resolve(heap, Ref(root), q)
       /\ IsNodeDef(DescAt(out["flat"].graphdef.nodedef, p))
       /\ IsNodeDef(DescAt(out["flat"].graphdef.nodedef, q))
       /\ DescAt(out["flat"].graphdef.nodedef, p).attributes # <<>>
       /\ DescAt(out["flat"].graphdef.nodedef, q).index = -1

(***************************************************************************)
(* Reading a static update: the target before the call is inp["heap"],     *)
(* the updates root is inp["updates"].  A pair <<t, u>> is a target node   *)
(* and the updates node merged into it, found by following the names that  *)
(* both have.                                                              *)
(***************************************************************************)
RECURSIVE MergedPairs(_, _)
MergedPairs(h, S) ==
  LET step == UNION {{<<Get(h[e[1]].attrs, k).v, Get(h[e[2]].attrs, k).v>> :
                        k \in {j \in KeySet(h[e[2]].attrs) :
                                 /\ is_node(h, Get(h[e[2]].attrs, j))
                                 /\ HasKey(h[e[1]].attrs, j)
                                 /\ is_node(h, Get(h[e[1]].attrs, j))
                                 /\ TypeOf(h, Get(h[e[1]].attrs, j))
                                      = TypeOf(h, Get(h[e[2]].attrs, j))}} :
                     e \in S}
  IN IF step \subseteq S THEN S ELSE MergedPairs(h, S \cup step)

StaticPairs == MergedPairs(inp["heap"], {<<root, inp["updates"]>>})

\* the updates node u carries a static value under name k, and t, the node
\* it is merged into, is an immutable tree node
StaticOnPytree(t, u, k) ==
  /\ inp["heap"][t].kind = "pytree"
  /\ HasKey(inp["heap"][u].attrs, k)
  /\ Get(inp["heap"][u].attrs, k).t = "static"

\* the call ended normally or at a static field of a tree node: no other
\* error ended it before its static fields were looked at
StaticFieldsLookedAt ==
  StaticDone /\ out["static"].err \in {NoErr, "ImmutableUpdateKey", "KeyError"}

\* C17  A static value of the updates object under a name of an immutable
\* tree node target: nothing changes and nothing is raised when the target
\* has the name with an equal value, and the immutability error is raised
\* in every other case, also when the target has no field of that name.
C17_StaticOnImmutable ==
  StaticFieldsLookedAt =>
    \A e \in StaticPairs : \A k \in Keys :
      StaticOnPytree(e[1], e[2], k) =>
        IF /\ HasKey(inp["heap"][e[1]].attrs, k)
           /\ Get(inp["heap"][e[1]].attrs, k) = Get(inp["heap"][e[2]].attrs, k)
        THEN heap[e[1]] = inp["heap"][e[1]] /\ out["static"].err = NoErr
        ELSE out["static"].err = "ImmutableUpdateKey"

\* the target tree node lacks the name: the call ends with KeyError
C17_KeyError ==
  /\ StaticDone
  /\ out["static"].err = "KeyError"
  /\ \E e \in StaticPairs : \E k \in Keys :
       /\ StaticOnPytree(e[1], e[2], k)
       /\ ~HasKey(inp["heap"][e[1]].attrs, k)

\* when the target tree node has the name, the claim holds
C17_StaticOnImmutableNamed ==
  StaticFieldsLookedAt =>
    \A e \in StaticPairs : \A k \in Keys :
      (StaticOnPytree(e[1], e[2], k) /\ HasKey(inp["heap"][e[1]].attrs, k)) =>
        IF Get(inp["heap"][e[1]].attrs, k) = Get(inp["heap"][e[2]].attrs, k)
        THEN heap[e[1]] = inp["heap"][e[1]] /\ out["static"].err = NoErr
        ELSE out["static"].err = "ImmutableUpdateKey"

\* both outcomes of the named case happen
C17_EqualKept ==
  /\ StaticDone /\ out["static"].err = NoErr
  /\ \E e \in StaticPairs : \E k \in Keys : StaticOnPytree(e[1], e[2], k)

C17_DifferentRaised ==
  /\ StaticDone /\ out["static"].err = "ImmutableUpdateKey"

(***************************************************************************)
(* Empty reconstruction: GraphDef.make_empty merges the descriptor with an *)
(* empty leaf table.  The initial graphs may hold raw arrays, the leaves   *)
(* that are not leaf cells (lines 494-495).                                *)
(***************************************************************************)
InitArr ==
  /\ InitHeap(heap, TRUE)
  /\ root = 1
  /\ pc = "init"
  /\ out = EmptyMap
  /\ inp = EmptyMap

\* lines 413-414
make_empty(h, graphdef) == graph_unflatten(h, graphdef, <<>>, NoneMapping)

MakeEmpty ==
  /\ pc = "flat"
  /\ LET r == make_empty(heap, out["flat"].graphdef)
     IN /\ heap' = r.heap
        /\ out' = MapPut(out, "empty", r)
  /\ pc' = "empty"
  /\ UNCHANGED <<root, inp>>

ReflattenEmpty ==
  /\ pc = "empty"
  /\ out["empty"].err = NoErr
  /\ LET r == graph_flatten(heap, out["empty"].node.v, NoneMapping)
     IN /\ heap' = r.heap
        /\ out' = MapPut(out, "reempty", r)
  /\ pc' = "reempty"
  /\ UNCHANGED <<root, inp>>

NextEmpty == Flatten \/ MakeEmpty \/ ReflattenEmpty

SpecEmpty == InitArr /\ [][NextEmpty]_vars

Emptied == pc \in {"empty", "reempty"}

\* the slots of the descriptor that hold a full VariableDef
LeafDefPaths ==
  {p \in Paths : LET d == DescAt(out["flat"].graphdef.nodedef, p)
                 IN d # Missing /\ ~IsInt(d) /\ IsVariableDef(d)}

\* the slot p of the empty graph holds a new leaf cell with the empty
\* payload, registered under the index of its VariableDef
EmptyCellAt(p) ==
  LET d == DescAt(out["flat"].graphdef.nodedef, p)
      x == Resolve(heap, out["empty"].node, p)
  IN /\ x # Missing
     /\ isVariable(heap, x)
     /\ x.v > Len(out["flat"].heap)
     /\ heap[x.v].raw_value = EMPTY
     /\ heap[x.v].type = d.type
     /\ d.index \in DOMAIN out["empty"].index_to_ref
     /\ out["empty"].index_to_ref[d.index] = x.v

\* the slots of the descriptor that hold a NodeDef hold a node of its type
SameTopology ==
  \A p \in Paths \cup {<<>>} :
    LET d == DescAt(out["flat"].graphdef.nodedef, p)
        x == Resolve(heap, out["empty"].node, p)
    IN (d # Missing /\ ~IsInt(d) /\ IsNodeDef(d)) =>
         /\ x # Missing /\ is_node(heap, x)
         /\ node_impl_type(heap, x.v) = d.type

\* C18  Empty reconstruction: for every descriptor D that graph_flatten
\* returns, unflattening D with the empty leaf table returns normally a
\* graph with the topology of D whose leaf cell slots hold new leaf cells
\* with the empty payload, registered under the index of their LeafDef, and
\* flattening that graph gives a descriptor equal to D.
C18_EmptyReconstruction ==
  /\ Emptied =>
       /\ out["empty"].err = NoErr
       /\ SameTopology
       /\ \A p \in LeafDefPaths : EmptyCellAt(p)
  /\ pc = "reempty" =>
       /\ out["reempty"].err = NoErr
       /\ GraphDefEq(out["reempty"].graphdef, out["flat"].graphdef)

\* a node of the flattened graph holds a raw array
HoldsArray ==
  \E n \in Reach(out["flat"].heap, {root}) :
    /\ out["flat"].heap[n].kind # "var"
    /\ \E i \in 1..Len(out["flat"].heap[n].attrs) :
         out["flat"].heap[n].attrs[i].val.t = "arr"

\* the descriptor of a graph with a raw array: make_empty raises
C18_ArrayRaises ==
  /\ pc = "empty"
  /\ HoldsArray
  /\ out["empty"].err = "UnknownStaticField"

\* graphs without raw arrays are reconstructed as stated
C18_EmptyReconstructionNoArray ==
  /\ (Emptied /\ ~HoldsArray) =>
       /\ out["empty"].err = NoErr
       /\ SameTopology
       /\ \A p \in LeafDefPaths : EmptyCellAt(p)
  /\ (pc = "reempty" /\ ~HoldsArray) =>
       /\ out["reempty"].err = NoErr
       /\ GraphDefEq(out["reempty"].graphdef, out["flat"].graphdef)

\* a graph with a shared leaf cell, a tree node and a cycle was emptied
C18_Emptied ==
  /\ pc = "reempty"
  /\ LeafDefPaths # {}
  /\ \E p \in Paths : IsInt(DescAt(out["flat"].graphdef.nodedef, p))
  /\ \E p \in Paths : is_pytree_node(heap, Resolve(heap, out["empty"].node, p))

(***************************************************************************)
(* Purity.  Objects are never freed and a new object gets the next id, so  *)
(* the objects a call was given are the ids 1..Len(heap) of the heap       *)
(* before the call, and a copy is an id above Len(heap).                   *)
(***************************************************************************)
\* the leaf cells that can be reached from an object
CellsFrom(h, x) == {n \in Reach(h, {x}) : h[n].kind = "var"}

\* the leaf cells of a flat leaf table
FlatCells(h, flat_state) ==
  {flat_state[i].leaf.v : i \in {j \in 1..Len(flat_state) : isVariable(h, flat_state[j].leaf)}}

\* C19  Purity without a reuse map: graph_flatten changes no node, field or
\* leaf cell of the graph, graph_unflatten changes neither the descriptor
\* nor a leaf cell of the table whether it returns or raises, and the leaf
\* cells of flatten's table and of unflatten's result are copies.
C19_Pure ==
  [][/\ SubSeq(heap', 1, Len(heap)) = heap
     /\ pc' = "flat" =>
          \A n \in FlatCells(heap', out'["flat"].flat_state) : n > Len(heap)
     /\ pc' = "unflatx" =>
          /\ out'["flat"] = out["flat"]
          /\ out'["unflatx"].err = NoErr =>
               \A n \in CellsFrom(heap', out'["unflatx"].node.v) : n > Len(heap)]_vars

\* graph_unflatten made objects from a table with leaf cells and then raised
C19_RaisedHalfway ==
  /\ pc = "unflatx"
  /\ out["unflatx"].err # NoErr
  /\ Len(heap) > Len(out["flat"].heap)
  /\ FlatCells(heap, out["flat"].flat_state) # {}

\* graph_unflatten returned a graph with leaf cells
C19_Returned ==
  /\ pc = "unflatx"
  /\ out["unflatx"].err = NoErr
  /\ CellsFrom(heap, out["unflatx"].node.v) # {}

(***************************************************************************)
(* The calls step by step.  A call of one of the recursive functions is a  *)
(* stack of frames, one frame for each invocation that is under way: the   *)
(* node it was given, the items it loops over, the place i of the loop,    *)
(* the node_dict it read on entry (aux) and its path.  One step looks at   *)
(* one item of the innermost loop, returns from a loop that is over, or    *)
(* unwinds the stack when an error was raised.  The work on one item is    *)
(* the work of the engines above; only the recursive invocation is a push. *)
(* visits lists the nodes whose loop was entered, in order.                *)
(* For graph_unflatten the walk is over the descriptor: the indices are    *)
(* registered and the objects that the call builds are left out.           *)
(***************************************************************************)
Walk(op, c, arg) == [op |-> op, c |-> c, arg |-> arg, stack |-> <<>>, visits |-> <<>>]

Frame(node, items, aux, path) ==
  [node |-> node, items |-> items, i |-> 1, aux |-> aux, path |-> path]

Push(w, visited, f) ==
  [w EXCEPT !.stack = Append(@, f), !.visits = Append(@, visited)]

\* the test on entry that no cached node passes
Cached_never(op, c, node) == FALSE

\* the test on entry: line 464 (flatten), line 705 (pop), line 828 (static)
Cached(op, c, node) ==
  CASE op = "flatten" -> node \in DOMAIN c.refmap
    [] op = "pop" -> node \in DOMAIN c.id_to_index
    [] op = "static" -> node \in DOMAIN c.cache
    [] OTHER -> FALSE

\* _graph_flatten, lines 464-479
FlattenCall(w, path, node) ==
  IF Cached("flatten", w.c, node) THEN w
  ELSE LET isGraph == get_node_impl(w.c.heap, node) = "GraphNodeImpl"
           w1 == IF isGraph
                 THEN [w EXCEPT !.c.refmap = MapPut(@, node, RefMapLen(@))]
                 ELSE w
       IN Push(w1, node, Frame(node, node_flatten(w.c.heap, node).nodes, <<>>, path))

\* _graph_flatten, lines 481-497: one item
FlattenItem(w, f) ==
  LET key == f.items[f.i].key
      value == f.items[f.i].val
  IN IF is_node(w.c.heap, value) THEN FlattenCall(w, Append(f.path, key), value.v)
     ELSE IF isVariable(w.c.heap, value)
     THEN [w EXCEPT !.c = FlattenVariable(@, f.path, key, value.v, EmptyAcc).c]
     ELSE IF is_state_leaf(w.c.heap, value)
     THEN [w EXCEPT !.c.flat_state = Append(@, [path |-> Append(f.path, key),
                                                leaf |-> value])]
     ELSE w

\* _graph_pop, lines 705-711
PopCall(w, path_parts, node) ==
  IF Cached("pop", w.c, node) THEN w
  ELSE Push([w EXCEPT !.c.id_to_index = MapPut(@, node, Cardinality(DOMAIN @))],
            node, Frame(node, node_dict(w.c.heap, node), <<>>, path_parts))

\* _graph_pop, lines 712-743: one item
PopItem(w, f) ==
  LET name == f.items[f.i].key
      value == f.items[f.i].val
  IN IF is_node(w.c.heap, value) THEN PopCall(w, Append(f.path, name), value.v)
     ELSE IF ~is_state_leaf(w.c.heap, value) THEN w
     ELSE IF value.t = "ref" /\ value.v \in DOMAIN w.c.id_to_index THEN w
     ELSE [w EXCEPT !.c = PopLeaf(@, f.node, name, value, Append(f.path, name),
                                  w.arg, 1)]

\* _graph_update_static, lines 819-847
StaticCall(w, node, updates, status) ==
  IF TypeOf(w.c.heap, node) # TypeOf(w.c.heap, updates)
  THEN [w EXCEPT !.c = Fail(@, "DifferentType")]
  ELSE IF ~is_node(w.c.heap, node) THEN [w EXCEPT !.c = Fail(@, "UnsupportedNode")]
  ELSE IF Cached("static", w.c, updates.v)
  THEN IF w.c.cache[updates.v] # status THEN [w EXCEPT !.c = Fail(@, "AliasUpdated")]
       ELSE w
  ELSE Push([w EXCEPT !.c.cache = MapPut(@, updates.v, status)], updates.v,
            Frame(node.v, node_dict(w.c.heap, updates.v),
                  node_dict(w.c.heap, node.v), <<>>))

\* _graph_update_static, lines 848-894: one item
StaticItem(w, f) ==
  LET name == f.items[f.i].key
      value_updates == f.items[f.i].val
  IN IF is_state_leaf(w.c.heap, value_updates) THEN w
     ELSE IF is_node(w.c.heap, value_updates)
     THEN IF HasKey(f.aux, name)
          THEN StaticCall([w EXCEPT !.c = Reached(@, value_updates, "UPDATED")],
                          Get(f.aux, name), value_updates, "UPDATED")
          ELSE [w EXCEPT !.c = StaticNewSubgraph(Reached(@, value_updates, "NEW"),
                                                 f.node, name, value_updates)]
     ELSE [w EXCEPT !.c = StaticField(@, f.node, f.aux, name, value_updates)]

\* _graph_update_dynamic, lines 746-751
UpdateCall(w, node, state) ==
  Push(w, node, Frame(node, state, node_dict(w.c.heap, node), <<>>))

\* _graph_update_dynamic, lines 752-792: one item
UpdateItem(w, f) ==
  LET key == f.items[f.i].key
      value == f.items[f.i].val
  IN IF ~HasKey(f.aux, key) THEN [w EXCEPT !.c = UpdateNewKey(@, f.node, key, value)]
     ELSE LET current_value == Get(f.aux, key)
          IN IF is_node(w.c.heap, current_value)
             THEN IF is_state_leaf(w.c.heap, value)
                  THEN [w EXCEPT !.c = Fail(@, "ExpectedSubgraph")]
                  ELSE UpdateCall(w, current_value.v, value.d)
             ELSE IF isVariable(w.c.heap, value)
             THEN [w EXCEPT !.c = UpdateVariable(@, f.node, key, current_value, value)]
             ELSE IF is_state_leaf(w.c.heap, value)
             THEN [w EXCEPT !.c = UpdateStateLeaf(@, f.node, key, value)]
             ELSE [w EXCEPT !.c = Fail(@, "UnsupportedUpdate")]

\* _graph_unflatten, lines 555-564 and 658-678
UnflattenCall(w, nodedef) ==
  IF IsInt(nodedef)
  THEN IF nodedef.backref \in DOMAIN w.c.index_to_ref THEN w
       ELSE [w EXCEPT !.c = Fail(@, "KeyError")]
  ELSE IF nodedef.index \in DOMAIN w.c.index_to_ref
  THEN [w EXCEPT !.c = Fail(@, "IndexAlreadyUsed")]
  ELSE LET w1 == IF nodedef.type # "PytreeType"
                 THEN [w EXCEPT !.c.index_to_ref = MapPut(@, nodedef.index, 0)]
                 ELSE w
       IN Push(w1, nodedef.index, Frame(nodedef, nodedef.attributes, <<>>, <<>>))

\* _graph_unflatten._get_children, lines 569-654: one attribute
UnflattenItem(w, f) ==
  LET key == f.items[f.i]
  IN IF key \in DOMAIN f.node.subgraphs THEN UnflattenCall(w, f.node.subgraphs[key])
     ELSE IF key \in DOMAIN f.node.variables
     THEN LET variable_def == f.node.variables[key]
          IN IF IsInt(variable_def)
             THEN IF variable_def.backref \in DOMAIN w.c.index_to_ref THEN w
                  ELSE [w EXCEPT !.c = Fail(@, "KeyError")]
             ELSE [w EXCEPT !.c.index_to_ref = MapPut(@, variable_def.index, 0)]
     ELSE w

WalkItem(w, f) ==
  CASE w.op = "flatten" -> FlattenItem(w, f)
    [] w.op = "pop" -> PopItem(w, f)
    [] w.op = "static" -> StaticItem(w, f)
    [] w.op = "update" -> UpdateItem(w, f)
    [] w.op = "unflatten" -> UnflattenItem(w, f)

\* the call under way is kept in out under its name, its input in inp
Started(w, h0, given, arg) ==
  /\ out' = MapPut(out, w.op, w)
  /\ inp' = MapPut(MapPut(inp, "heap", h0), given, arg)
  /\ heap' = w.c.heap
  /\ pc' = "walk"
  /\ UNCHANGED root

StartFlatten ==
  /\ pc = "init"
  /\ Started(FlattenCall(Walk("flatten", FlattenCtx(heap), <<>>), <<>>, root),
             heap, "node", root)

StartUnflatten ==
  /\ pc = "init"
  /\ LET r == graph_flatten(heap, root, NoneMapping)
     IN Started(UnflattenCall(Walk("unflatten", UnflattenCtx(r.heap), <<>>),
                              r.graphdef.nodedef),
                heap, "graphdef", r.graphdef)

StartPop ==
  /\ pc = "init"
  /\ \E filters \in FilterLists :
       Started(PopCall(Walk("pop", PopCtx(heap, Len(filters)), filters), <<>>, root),
               heap, "filters", filters)

StartStatic ==
  /\ pc = "init"
  /\ NumAttrs(heap) < MaxAttrs
  /\ \E u \in UpdatesFamily(Len(heap)) :
       LET h0 == heap \o UpdatesHeap(Len(heap), u[1], u[2], u[3], u[4])
           updates == Len(heap) + 1
       IN Started(StaticCall(Walk("static", StaticCtx(h0), <<>>),
                             Ref(root), Ref(updates), "UPDATED"),
                  h0, "updates", updates)

StartUpdate ==
  /\ pc = "init"
  /\ \E shape \in TableShapes :
       /\ shape[Len(shape)].key # shape[1].key \/ Len(shape) = 1
       /\ LET h0 == heap \o TableCells(shape)
              table == MakeTable(heap, shape)
          IN Started(UpdateCall(Walk("update", UpdateCtx(h0), <<>>), root, table),
                     h0, "table", table)

Walking == out[CHOOSE op \in DOMAIN out : TRUE]

\* one step of the innermost invocation
WalkStep ==
  /\ pc = "walk"
  /\ Walking.stack # <<>>
  /\ LET w == Walking
         top == Len(w.stack)
         f == w.stack[top]
         w2 == IF w.c.err # NoErr THEN [w EXCEPT !.stack = <<>>]
               ELSE IF f.i > Len(f.items)
               THEN [w EXCEPT !.stack = SubSeq(@, 1, top - 1)]
               ELSE WalkItem([w EXCEPT !.stack[top].i = @ + 1], f)
     IN /\ out' = MapPut(out, w.op, w2)
        /\ heap' = w2.c.heap
  /\ UNCHANGED <<root, inp, pc>>

\* the outermost invocation has returned or raised
WalkEnd ==
  /\ pc = "walk"
  /\ Walking.stack = <<>>
  /\ pc' = "walked"
  /\ UNCHANGED <<heap, root, inp, out>>

NextWalk ==
  \/ StartFlatten \/ StartUnflatten \/ StartPop \/ StartStatic \/ StartUpdate
  \/ WalkStep \/ WalkEnd

\* a call that can take a step takes it
SpecWalk == Init /\ [][NextWalk]_vars /\ WF_vars(NextWalk)

\* the context that the engine above ends with on the same input
EngineCtx ==
  LET op == Walking.op
      h0 == inp["heap"]
  IN CASE op = "flatten" -> _graph_flatten(FlattenCtx(h0), <<>>, root).c
       [] op = "pop" ->
            _graph_pop(PopCtx(h0, Len(inp["filters"])), root, <<>>, inp["filters"])
       [] op = "static" ->
            _graph_update_static(StaticCtx(h0), Ref(root), Ref(inp["updates"]), "UPDATED")
       [] op = "update" -> _graph_update_dynamic(UpdateCtx(h0), root, inp["table"])
       [] op = "unflatten" ->
            LET fl == graph_flatten(h0, root, NoneMapping)
                r == graph_unflatten(fl.heap, inp["graphdef"], fl.state, NoneMapping)
            IN [heap |-> fl.heap, err |-> r.err,
                index_to_ref |-> [k \in DOMAIN r.index_to_ref |-> 0]]

\* the steps end with what the engine computes in one go
WalkAgrees == pc = "walked" => Walking.c = EngineCtx

\* a node whose loop may be entered again: an immutable tree node for flatten
\* and unflatten, any node for update
MayRevisit(w, x) ==
  CASE w.op = "flatten" -> w.c.heap[x].kind = "pytree"
    [] w.op = "unflatten" -> x = -1
    [] w.op = "update" -> TRUE
    [] OTHER -> FALSE

AtMostOnce ==
  pc \in {"walk", "walked"} =>
    LET w == Walking
    IN \A i, j \in 1..Len(w.visits) :
         (i < j /\ w.visits[i] = w.visits[j]) => MayRevisit(w, w.visits[i])

\* the invocations that a call can make: one for each node and one for
\* each slot of a node of the graph (for update: of the table)
MaxVisits ==
  IF Walking.op = "update" THEN 1 + Cardinality(TablePaths(inp["table"]))
  ELSE LET h == inp["heap"]
           N == {n \in 1..Len(h) : h[n].kind # "var"}
           count[S \in SUBSET N] ==
             IF S = {} THEN 0
             ELSE LET n == CHOOSE x \in S : TRUE
                  IN 1 + Len(h[n].attrs) + count[S \ {n}]
       IN count[N]

\* the items that the frames of the stack have still to look at, and one
\* step for each return
RECURSIVE ToDo(_, _)
ToDo(stack, k) ==
  IF k > Len(stack) THEN 0
  ELSE (Len(stack[k].items) - stack[k].i + 2) + ToDo(stack, k + 1)

\* the variant of a call: what the invocations still to be made can cost,
\* and what the invocations under way have left to do
Variant(w) ==
  (MaxVisits - Len(w.visits)) * (Cardinality(Keys) + 2) + ToDo(w.stack, 1)

Bounded ==
  pc \in {"walk", "walked"} =>
    /\ Len(Walking.visits) <= MaxVisits
    /\ \A k \in 1..Len(Walking.stack) :
         /\ Len(Walking.stack[k].items) <= Cardinality(Keys)
         /\ Walking.stack[k].i <= Len(Walking.stack[k].items) + 1

\* C20  Termination: on every finite graph whose cycles pass through a
\* mutable graph node, graph_flatten, graph_unflatten of the descriptor of
\* flatten, pop, graph_update_static and update come to an end: the loop of
\* a mutable graph node (for pop and the static update: of any node) is
\* entered at most once in a call, and every step of a call makes its
\* variant, a natural number, smaller.
C20_Terminates ==
  /\ []AtMostOnce
  /\ []Bounded
  /\ [][WalkStep => Variant(Walking)' < Variant(Walking)]_vars

\* every call that was started comes to its end
C20_ComesToEnd == (pc = "walk") ~> (pc = "walked")

\* a call on a graph with a cycle through the root came to an end after
\* entering the loop of the root once and coming upon the root again
C20_Witness ==
  /\ pc = "walked"
  /\ Walking.op \in {"flatten", "pop", "static"}
  /\ root \in Reach(inp["heap"], RefsOf(inp["heap"], root))
  /\ Len(Walking.visits) > 1

(***************************************************************************)
(* Hash and equality of the descriptors of a graph and of its twin: the    *)
(* entries of the two descriptors, slot by slot, and the two GraphDefs.    *)
(***************************************************************************)
Paired == pc = "pair"

\* the full VariableDefs and the full NodeDefs of a descriptor
VariableDefsOf(g) ==
  {d \in {DescAt(g.nodedef, p) : p \in Paths} :
     d # Missing /\ ~IsInt(d) /\ IsVariableDef(d)}

NodeDefsOf(g) ==
  {d \in {DescAt(g.nodedef, p) : p \in Paths \cup {<<>>}} :
     d # Missing /\ ~IsInt(d) /\ IsNodeDef(d)}

\* a GraphDef with the same NodeDef and another index_mapping
Remapped(g) == [g EXCEPT !.index_mapping = [map |-> (0 :> 0)]]

\* C21  Hash is consistent with equality: two VariableDefs, NodeDefs or
\* GraphDefs that compare equal have equal hashes, also two VariableDefs
\* whose metadata hold the same pairs inserted in another order and two
\* GraphDefs that differ in index_mapping only.
C21_HashConsistent ==
  Paired =>
    LET g == out["flat"].graphdef
        k == out["twin"].graphdef
    IN /\ \A d \in VariableDefsOf(g), e \in VariableDefsOf(k) :
            VariableDefEq(d, e) => VariableDefHash(d) = VariableDefHash(e)
       /\ \A d \in NodeDefsOf(g), e \in NodeDefsOf(k) :
            NodeDefEq(d, e) => NodeDefHash(d) = NodeDefHash(e)
       /\ GraphDefEq(g, k) => GraphDefHash(g) = GraphDefHash(k)
       /\ GraphDefEq(g, Remapped(k)) => GraphDefHash(g) = GraphDefHash(Remapped(k))

\* two VariableDefs of the pair hold the same metadata in another order:
\* they compare equal and hash differently
C21_EqualHashDiffers ==
  /\ Paired
  /\ \E d \in VariableDefsOf(out["flat"].graphdef),
        e \in VariableDefsOf(out["twin"].graphdef) :
       /\ VariableDefEq(d, e)
       /\ d.metadata # e.metadata
       /\ VariableDefHash(d) # VariableDefHash(e)

\* the NodeDefs of graphs whose leaf cells have fewer than two metadata
\* entries, and the GraphDefs that differ in index_mapping only, hash as
\* they compare
C21_HashConsistentElsewhere ==
  Paired =>
    LET g == out["flat"].graphdef
        k == out["twin"].graphdef
    IN /\ \A d \in NodeDefsOf(g), e \in NodeDefsOf(k) :
            (NodeDefEq(d, e) /\ \A v \in VariableDefsOf(g) \cup VariableDefsOf(k) :
                                  Len(v.metadata) < 2)
              => NodeDefHash(d) = NodeDefHash(e)
       /\ /\ Remapped(g) # g
          /\ GraphDefEq(g, Remapped(g))
          /\ GraphDefHash(g) = GraphDefHash(Remapped(g))

\* two equal GraphDefs with a leaf cell that hash alike
C21_EqualHashEqual ==
  /\ Paired
  /\ VariableDefsOf(out["flat"].graphdef) # {}
  /\ GraphDefEq(out["flat"].graphdef, out["twin"].graphdef)
  /\ GraphDefHash(out["flat"].graphdef) = GraphDefHash(out["twin"].graphdef)

====
